---------------------------- MODULE Spec2Model ----------------------------
(***************************************************************************)
(* Model of the map application's asynchronous core:                       *)
(*   - the viewport layer synchronizer (hook useWfsLayer): overlayadd,     *)
(*     overlayremove and debounced moveend handlers around fetchForBbox;   *)
(*   - the click resolution controller (Map.handleMapClick): point query   *)
(*     (ZWSService.selectByXY), WFS fallback (loadWfsAtPoint) and popups;  *)
(*   - the popup HTML builders.                                            *)
(*   - the ZWS tile layer (ZWSLayer.createTile) and the teardown of the    *)
(*     map component;                                                      *)
(*   - the parsing functions: parseWfsXmlToGeoJson with parsePosList, and  *)
(*     ZWSService.selectByXY with parseFields.                             *)
(*                                                                         *)
(* Strings are sequences of one-character strings.  HTML is a sequence of  *)
(* tokens: a template fragment is one token ("<strong>"), remote content   *)
(* contributes one token per character, and an escaped character is the    *)
(* one token of its entity ("&lt;").                                       *)
(*                                                                         *)
(* Time is counted in milliseconds relative to the running debounce timer. *)
(* The transport is the browser's fetch: a request whose signal was        *)
(* aborted normally rejects with AbortError, but cancellation is           *)
(* best-effort, so an aborted request may also still deliver its response; *)
(* a click resolution records in `lossy` that this has happened to it.     *)
(*                                                                         *)
(* The program starts with Map rendered and no effect run.  Its first      *)
(* commit runs the hook's effect, which finds no map and returns, and then *)
(* Map's effect, which creates the map, Map's own WFS layer ('WFS          *)
(* (GeoJSON)' in the layers control) and sends the initial load through    *)
(* fetchForBbox.  No commit of Map runs the hook's effect with a map in    *)
(* mapRef, so in the program the hook's layer does not exist and its       *)
(* handlers are subscribed nowhere; the handlers are modelled as the hook  *)
(* runs them for a caller whose map exists when its effect runs (the step  *)
(* HookEffectRuns, which belongs to SpecSync alone).                       *)
(* Leaflet's part is modelled where the code depends on it: the layers     *)
(* control adds or removes a layer before it fires overlayadd or           *)
(* overlayremove, it fires overlayadd whenever the layer is added to the   *)
(* map, addData makes a sublayer only of a feature with a geometry,        *)
(* fitBounds ends in a moveend, and a removed map throws on fitBounds and  *)
(* openOn.                                                                 *)
(***************************************************************************)
EXTENDS Integers, Sequences, FiniteSets, TLC

(***************************************************************************)
(* Bounds of the model.                                                    *)
(***************************************************************************)
\* bbox requests that may be in flight at the same time
MaxInflight == 2
\* clicks on the map in one run
MaxClicks == 2
\* moveend events counted in one burst (the count saturates)
MaxBurst == 3
\* tiles the grid asks the tile layer for
MaxTiles == 3

(***************************************************************************)
(* Program constants.                                                      *)
(***************************************************************************)
\* setTimeout(..., 350) in onMoveEnd
DebounceMs == 350
\* granularity of the clock: two steps per debounce interval
TickMs == DebounceMs \div 2
\* moveTimer value when no timeout is pending
NoTimer == 0 - 1
\* saturation value of the time elapsed since the last accepted moveend
LongAgo == DebounceMs + TickMs

(***************************************************************************)
(* Remote content.                                                         *)
(***************************************************************************)
Prop(k, v) == [k |-> k, v |-> v]

\* WFS features as parseWfsXmlToGeoJson returns them: properties in document
\* order and a geometry (or none).
FeatPlain == [properties |-> <<Prop(<<"n">>, <<"a">>)>>, geometry |-> "Point"]
FeatMarkup == [properties |-> <<Prop(<<"n">>, <<"<", "&">>)>>, geometry |-> "Polygon"]
FeatNoGeom == [properties |-> <<Prop(<<"k">>, <<"b">>)>>, geometry |-> "none"]

\* feature lists of the FeatureCollections the WFS server may answer with
Responses == { <<>>, <<FeatPlain>>, <<FeatMarkup, FeatPlain>>, <<FeatNoGeom>> }

\* the texts of the block the XML parser puts into the document of a text
\* that is not well-formed: two headings, and the message for a text
\* without a root element
ErrorsHead == <<"This page contains the following errors:">>
RenderingHead == <<"Below is a rendering of the page up to the first error.">>
NoRootDiag ==
  <<"error on line 1 at column 1: Start tag expected, ", "'", "<", "'", " not found">>

\* the feature read off the parser's error block when the text has no root
\* element: its headings and its message are the properties (the second
\* heading replaces the first)
FeatErrorBlock ==
  [properties |-> <<Prop(<<"h3">>, RenderingHead), Prop(<<"div">>, NoRootDiag)>>,
   geometry |-> "none"]

\* the feature of a member without child elements: no property, no geometry
FeatBare == [properties |-> <<>>, geometry |-> "none"]
\* the feature of a member cut inside its first attribute <n>: the parser
\* closes the open elements, the attribute is there and empty
FeatCut == [properties |-> <<Prop(<<"n">>, <<>>)>>, geometry |-> "none"]

\* feature lists parseWfsXmlToGeoJson returns for a body that is not
\* well-formed XML.  DOMParser does not throw: it returns the document parsed
\* up to the error with a parsererror element put in front of the root's
\* children, and the function reads that document like any other.
\*   not xml          no root element: the document is html > body >
\*                    parsererror, body is the member and the parsererror
\*                    its feature element
\*   <a>              the parsererror is the only member
\*   <a><b></a>       the parsererror and <b/> are the members
\*   a collection of gml:featureMember cut inside the attribute of its
\*   second member: the complete member and the cut one
MalformedResponses ==
  { <<FeatErrorBlock>>, <<FeatBare>>, <<FeatBare, FeatBare>>, <<FeatPlain, FeatCut>> }

\* the feature lists a response of a kind can carry: those of a well-formed
\* body, those of a body that is not well-formed, none when the request
\* failed or was cancelled
BodyFeatures(kind) ==
  CASE kind = "ok" -> Responses
    [] kind = "malformed" -> MalformedResponses
    [] OTHER -> { <<>> }

\* fetchForBbox's result when the request failed or was cancelled
NullFc == [isNull |-> TRUE, features |-> <<>>]
Fc(feats) == [isNull |-> FALSE, features |-> feats]

ZWSField(userName, value) == [userName |-> userName, value |-> value]

\* non-empty field lists the point query may answer with
FieldLists == { <<ZWSField(<<"t">>, <<"<", "x">>)>>,
                <<ZWSField(<<"t">>, <<"y">>), ZWSField(<<"&">>, <<">">>)>> }

\* messages of the errors selectByXY may throw (status text and body are remote)
ErrMsgs == { <<"E", "<">> }


(***************************************************************************)
(* Popup HTML.                                                             *)
(***************************************************************************)
RECURSIVE JoinBr(_)
\* Array.prototype.join('<br/>') over the rendered entries
JoinBr(parts) ==
  IF parts = <<>> THEN <<>>
  ELSE IF Len(parts) = 1 THEN parts[1]
  ELSE parts[1] \o <<"<br/>">> \o JoinBr(Tail(parts))

\* one character of escapeHtml's output: the entity of a markup character
EscapeChar(c) ==
  CASE c = "&" -> "&amp;"
    [] c = "<" -> "&lt;"
    [] c = ">" -> "&gt;"
    [] c = "\"" -> "&quot;"
    [] c = "'" -> "&#39;"
    [] OTHER -> c

\* utils/escapeHtml: every markup character replaced by its entity
escapeHtml(s) == [i \in 1..Len(s) |-> EscapeChar(s[i])]

\* the hook layer's onEachFeature entry: `<strong>${k}</strong>: ${String(v)}`
HookEntry(p) == <<"<strong>">> \o p.k \o <<"</strong>: ">> \o p.v

\* the hook layer's onEachFeature popup
HookPopupHtml(props) ==
  <<"<div>">> \o JoinBr([i \in 1..Len(props) |-> HookEntry(props[i])]) \o <<"</div>">>

\* the entry with the name and the value inserted as they are
MapEntryRaw(k, v) == <<"<strong>">> \o k \o <<":</strong> ">> \o v

\* Map.tsx entry: `<strong>${escapeHtml(String(k))}:</strong> ${escapeHtml(String(v))}`
MapEntry(k, v) == <<"<strong>">> \o escapeHtml(k) \o <<":</strong> ">> \o escapeHtml(v)

\* popup of the first WFS feature in the click fallback, and of Map's own layer
PropsPopupHtml(props) ==
  <<"<div>">> \o JoinBr([i \in 1..Len(props) |-> MapEntry(props[i].k, props[i].v)])
    \o <<"</div>">>

\* the text shown when the element was found without any field (the popup's
\* fixed texts are Russian in the source; the model names them in ASCII)
NoAttrsHtml == <<"<div><em>FOUND_NO_ATTRIBUTES</em></div>">>

\* popup built from the point query's fields
FieldsPopupHtml(fields) ==
  IF Len(fields) = 0 THEN NoAttrsHtml
  ELSE <<"<div>">>
         \o JoinBr([i \in 1..Len(fields) |-> MapEntry(fields[i].userName, fields[i].value)])
         \o <<"</div>">>

\* content of the "object not found" popup
NotFoundHtml == <<"<div><em>NOT_FOUND</em></div>">>

\* content of the error popup: the message is inserted as it is
ErrorHtml(msg) == <<"<div><strong>ERROR:</strong> ">> \o msg \o <<"</div>">>

\* L.geoJSON.addData: one sublayer per feature that has a geometry, each with
\* the popup that onEachFeature binds
HookSublayers(feats) ==
  LET withGeom == SelectSeq(feats, LAMBDA f : f.geometry # "none")
  IN [i \in 1..Len(withGeom) |->
        [feature |-> withGeom[i], popup |-> HookPopupHtml(withGeom[i].properties)]]

MapSublayers(feats) ==
  LET withGeom == SelectSeq(feats, LAMBDA f : f.geometry # "none")
  IN [i \in 1..Len(withGeom) |->
        [feature |-> withGeom[i], popup |-> PropsPopupHtml(withGeom[i].properties)]]


(***************************************************************************)
(* State.                                                                  *)
(***************************************************************************)
VARIABLES
  layerOnMap,   \* map.hasLayer(layer) for the hook's GeoJSON layer
  layer,        \* sublayers of the hook's GeoJSON layer, in insertion order
  inflight,     \* bbox requests sent by fetchForBbox and not settled, oldest first
  moveTimer,    \* ms left on onMoveEnd's timeout, NoTimer when none is pending
  fitPending,   \* a fitBounds call has moved the view and its moveend is due
  mapLayer,     \* sublayers of the layer in Map's wfsLayerRef, none without it
  clicks,       \* the click resolutions, by click number
  numClicks,    \* clicks handled so far
  markers,      \* markers of the markers group, in insertion order
  sinceMove,    \* history: ms since the last moveend the layer accepted
  moveEvents,   \* history: accepted moveend events of the current burst
  burstFetches, \* history: requests sent by the timer for the current burst
  ev            \* history: the last step taken

VARIABLES
  tiles,        \* the tiles of the ZWS tile layer, by tile number
  torn,         \* Map has unmounted: the cleanups of its effects have run
  late          \* history: what was done after the unmount

VARIABLE
  call          \* a call of one of the parsing functions: its input and result

VARIABLE
  mount         \* the Map component's effects: props, map instance, subscriptions

\* the state outside the running synchronizer and click controller
auxVars == <<tiles, torn, late, call, mount>>

\* the state of the synchronizer and the click controller
coreVars == <<layerOnMap, layer, inflight, moveTimer, fitPending, mapLayer, clicks,
              numClicks, markers, sinceMove, moveEvents, burstFetches, ev>>

\* coreVars without the step record
coreVarsButEv == <<layerOnMap, layer, inflight, moveTimer, fitPending, mapLayer, clicks,
                   numClicks, markers, sinceMove, moveEvents, burstFetches>>

vars == <<coreVars, auxVars>>

Min(a, b) == IF a < b THEN a ELSE b

\* the record of a step; the fields a step does not use keep these values
NoEv == [type |-> "none", origin |-> "none", click |-> 0, kind |-> "none",
         latest |-> FALSE, stale |-> FALSE, applied |-> FALSE, changed |-> FALSE,
         empty |-> FALSE, feats |-> <<>>, fit |-> "none",
         newest |-> FALSE, cut |-> FALSE]

(***************************************************************************)
(* fetchForBbox (hook).  A request in flight carries the AbortController   *)
(* it was sent with: `latest` says that abortRef.current is that           *)
(* controller, `aborted` that the controller's signal is aborted.  `gone`  *)
(* says that the map its continuation holds has been removed.  The rest is *)
(* history: `stale`, a layer request sent later has already put its result *)
(* into its layer; `newest`, no layer request has been sent since; `cut`,  *)
(* the request's layer was disabled while the request was in flight.       *)
(***************************************************************************)
\* the origins of the requests of the hook's handlers: onOverlayAdd and the
\* debounced reload of onMoveEnd
LayerStream == {"enable", "move"}

\* the origins of the requests whose result goes into a WFS layer: those of
\* the hook's handlers and Map's initial load
BboxStream == LayerStream \cup {"init"}

Request(origin, click) ==
  [origin |-> origin, click |-> click, aborted |-> FALSE, latest |-> TRUE,
   stale |-> FALSE, newest |-> TRUE, cut |-> FALSE, gone |-> FALSE]

\* history: a request of `origin` is sent after the requests fs
Overtaken(fs, origin) ==
  [i \in DOMAIN fs |-> [fs[i] EXCEPT !.latest = FALSE,
                                     !.newest = (@ /\ origin \notin BboxStream)]]

\* abortRef.current?.abort() is left out: no signal is aborted
AbortCurrentIgnored(fs) == fs

\* abortRef.current?.abort(): the signal of the current controller is aborted
AbortCurrent(fs) ==
  [i \in DOMAIN fs |-> IF fs[i].latest THEN [fs[i] EXCEPT !.aborted = TRUE] ELSE fs[i]]

\* fetchForBbox without its abortRef.current?.abort(): the new controller is
\* installed and the request sent, the previous controller is left alone
fetchForBboxNoAbort(fs, origin, click) ==
  Append(Overtaken(fs, origin), Request(origin, click))

\* fetchForBbox up to its first await: abort the previous controller, install
\* a new one and send the request with its signal
fetchForBbox(fs, origin, click) ==
  Append(Overtaken(AbortCurrent(fs), origin), Request(origin, click))

\* the sequence without its i-th element
RemoveAt(fs, i) == [j \in 1..(Len(fs) - 1) |-> IF j < i THEN fs[j] ELSE fs[j + 1]]

\* history: the layer requests sent before the i-th have been overtaken
MarkOlderStale(fs, i) ==
  [j \in DOMAIN fs |->
     IF j < i /\ fs[j].origin \in BboxStream THEN [fs[j] EXCEPT !.stale = TRUE]
     ELSE fs[j]]

\* history: the layer fed by the requests of `origins` is disabled
CutStream(fs, origins) ==
  [i \in DOMAIN fs |->
     IF fs[i].origin \in origins /\ ~fs[i].gone THEN [fs[i] EXCEPT !.cut = TRUE]
     ELSE fs[i]]

\* what fetchForBbox returns once the request settles: the collection of the
\* features `feats` that parseWfsXmlToGeoJson read from the body ("ok": a
\* well-formed body, "malformed": a body that is not well-formed), or null
\* after a failed status, a network error or an AbortError
FetchResult(kind, feats) ==
  IF kind \in {"ok", "malformed"} THEN Fc(feats) ELSE NullFc

\* the ways a request can settle: "abort" needs an aborted signal; an aborted
\* request whose cancellation did not take effect settles like any other
SettleKinds(f) ==
  IF f.aborted THEN {"ok", "malformed", "fail", "abort"} ELSE {"ok", "malformed", "fail"}

\* the transport call delivered a response although its signal was aborted
Delivered(wasAborted, kind) == wasAborted /\ kind \notin {"abort", "fail"}

(***************************************************************************)
(* Bound on concurrency: a trigger is taken only when every request that   *)
(* is already due (pending timer, click still in its point query) and the  *)
(* new one fit into MaxInflight.                                           *)
(***************************************************************************)
Querying == {c \in 1..MaxClicks : clicks[c].phase = "query"}

Due == (IF moveTimer # NoTimer THEN 1 ELSE 0) + Cardinality(Querying)

Room(n) == Len(inflight) + Due + n <= MaxInflight


(***************************************************************************)
(* The hook's handlers (useWfsLayer).  They run only where the hook's      *)
(* effect has subscribed them (map.on at the end of the effect).           *)
(***************************************************************************)
\* the hook's effect has created its layer and subscribed its handlers on the
\* map that exists
Subscribed == mount.handlersOn # 0 /\ mount.handlersOn = mount.map

\* onOverlayAdd puts a settled result into the layer only when it has features
EnableApplies(fc) == ~fc.isNull /\ Len(fc.features) > 0

\* the layer's content with addData(fc) but without clearLayers()
AddToLayer(old, feats) == old \o HookSublayers(feats)

\* layer.clearLayers(); layer.addData(fc): the layer's content afterwards
ReplaceLayer(old, feats) == HookSublayers(feats)

\* map.fitBounds called whatever the result was
FitsViewAlways(applies, newLayer) == TRUE

\* onOverlayAdd calls map.fitBounds when it has filled the layer and the
\* layer's bounds are valid (the layer has a sublayer)
FitsView(applies, newLayer) == applies /\ Len(newLayer) > 0

\* history: the request resolved with a collection of zero features
EmptyResult(fc) == ~fc.isNull /\ Len(fc.features) = 0

\* the debounced reload puts every non-null result into the layer
MoveApplies(fc) == ~fc.isNull

\* clearTimeout(moveTimer) is skipped: a pending timeout keeps running
RestartTimerKeepPending(t) == IF t = NoTimer THEN DebounceMs ELSE t

\* onMoveEnd: clearTimeout(moveTimer); moveTimer = setTimeout(..., 350)
RestartTimer(t) == DebounceMs

\* history: an accepted moveend opens a new burst when the previous burst's
\* timeout has run out
OpensBurst ==
  \/ moveEvents = 0
  \/ sinceMove > DebounceMs
  \/ sinceMove = DebounceMs /\ burstFetches > 0

\* onMoveEnd without its first line
hasLayerAlways(onMap) == TRUE

\* map.hasLayer(layer)
hasLayer(onMap) == onMap

\* the map fires moveend, from any source: onMoveEnd runs where the hook has
\* subscribed it
onMoveEnd(source) ==
  /\ mount.map # 0
  /\ IF Subscribed /\ hasLayer(layerOnMap)
     THEN /\ moveTimer # NoTimer \/ Room(1)
          /\ moveTimer' = RestartTimer(moveTimer)
          /\ sinceMove' = 0
          /\ moveEvents' = IF OpensBurst THEN 1 ELSE Min(moveEvents + 1, MaxBurst)
          /\ burstFetches' = IF OpensBurst THEN 0 ELSE burstFetches
          /\ ev' = [NoEv EXCEPT !.type = "moveend", !.origin = source, !.applied = TRUE]
     ELSE /\ ev' = [NoEv EXCEPT !.type = "moveend", !.origin = source]
          /\ UNCHANGED <<moveTimer, sinceMove, moveEvents, burstFetches>>
  /\ UNCHANGED <<layerOnMap, layer, inflight, mapLayer, clicks, numClicks, markers,
                 auxVars>>

\* the user pans or zooms the map
MoveEnd ==
  /\ onMoveEnd("user")
  /\ UNCHANGED fitPending

\* the view change made by fitBounds ends
FitMoveEnd ==
  /\ fitPending
  /\ fitPending' = FALSE
  /\ onMoveEnd("fit")

\* the user ticks the overlay in the layers control: the control adds the
\* layer to the map and fires overlayadd; onOverlayAdd runs up to its await
OverlayAdd ==
  /\ Subscribed
  /\ ~layerOnMap
  /\ Room(1)
  /\ layerOnMap' = TRUE
  /\ inflight' = fetchForBbox(inflight, "enable", 0)
  /\ ev' = [NoEv EXCEPT !.type = "overlayadd"]
  /\ UNCHANGED <<layer, moveTimer, fitPending, mapLayer, clicks, numClicks, markers,
                 sinceMove, moveEvents, burstFetches,
                 auxVars>>

\* the user unticks the overlay: the control removes the layer from the map
\* and fires overlayremove; onOverlayRemove aborts the current controller
OverlayRemove ==
  /\ Subscribed
  /\ layerOnMap
  /\ layerOnMap' = FALSE
  /\ inflight' = AbortCurrent(CutStream(inflight, LayerStream))
  /\ ev' = [NoEv EXCEPT !.type = "overlayremove"]
  /\ UNCHANGED <<layer, moveTimer, fitPending, mapLayer, clicks, numClicks, markers,
                 sinceMove, moveEvents, burstFetches,
                 auxVars>>

\* the debounce timeout fires: the callback of onMoveEnd runs up to its await
TimerFire ==
  /\ moveTimer = 0
  /\ moveTimer' = NoTimer
  /\ inflight' = fetchForBbox(inflight, "move", 0)
  /\ burstFetches' = Min(burstFetches + 1, 2)
  /\ ev' = [NoEv EXCEPT !.type = "timer"]
  /\ UNCHANGED <<layerOnMap, layer, fitPending, mapLayer, clicks, numClicks, markers,
                 sinceMove, moveEvents,
                 auxVars>>

\* TickMs of time pass; a timeout that is due fires before time goes on
Tick ==
  /\ moveTimer = NoTimer \/ moveTimer >= TickMs
  /\ moveTimer' = IF moveTimer = NoTimer THEN NoTimer ELSE moveTimer - TickMs
  /\ sinceMove' = Min(sinceMove + TickMs, LongAgo)
  /\ ev' = [NoEv EXCEPT !.type = "tick"]
  /\ UNCHANGED <<layerOnMap, layer, inflight, fitPending, mapLayer, clicks, numClicks,
                 markers, moveEvents, burstFetches,
                 auxVars>>

\* the step record of a settled request
SettleEv(f, kind, applied, changed) ==
  [NoEv EXCEPT !.type = "settle", !.origin = f.origin, !.click = f.click,
               !.kind = kind, !.latest = f.latest, !.stale = f.stale,
               !.applied = applied, !.changed = changed,
               !.newest = f.newest, !.cut = f.cut]

\* history: how the moveend of a fitBounds call is fired
FitKind(fits, inside) == IF ~fits THEN "none" ELSE IF inside THEN "inside" ELSE "later"

\* onOverlayAdd after its await: fill the layer, fit the view, and make sure
\* the layer is on the map.  Adding the layer makes the layers control fire
\* overlayadd again, which runs onOverlayAdd for a new request.  `inside`
\* says that fitBounds fires its moveend before it returns (a view change
\* without animation); onMoveEnd then runs at line 106, before line 113.
SettleEnable(i, kind, feats, inside) ==
  /\ i \in DOMAIN inflight
  /\ inflight[i].origin = "enable"
  /\ kind \in SettleKinds(inflight[i])
  /\ LET fc == FetchResult(kind, feats)
         applies == EnableApplies(fc)
         newLayer == IF applies THEN ReplaceLayer(layer, fc.features) ELSE layer
         rest == RemoveAt(IF applies THEN MarkOlderStale(inflight, i) ELSE inflight, i)
         fits == FitsView(applies, newLayer)
         accepted == fits /\ inside /\ hasLayer(layerOnMap)
     IN /\ inside => fits
        /\ layer' = newLayer
        /\ fitPending' = (fitPending \/ (fits /\ ~inside))
        /\ moveTimer' = IF accepted THEN RestartTimer(moveTimer) ELSE moveTimer
        /\ sinceMove' = IF accepted THEN 0 ELSE sinceMove
        /\ moveEvents' = IF ~accepted THEN moveEvents
                         ELSE IF OpensBurst THEN 1 ELSE Min(moveEvents + 1, MaxBurst)
        /\ burstFetches' = IF accepted /\ OpensBurst THEN 0 ELSE burstFetches
        /\ layerOnMap' = TRUE
        /\ inflight' = IF layerOnMap THEN rest ELSE fetchForBbox(rest, "enable", 0)
        /\ ev' = [SettleEv(inflight[i], kind, applies, newLayer # layer) EXCEPT
                    !.empty = EmptyResult(fc), !.feats = fc.features,
                    !.fit = FitKind(fits, inside)]
  /\ UNCHANGED <<mapLayer, clicks, numClicks, markers, auxVars>>

\* the timeout callback after its await: replace the layer's content
SettleMove(i, kind, feats) ==
  /\ i \in DOMAIN inflight
  /\ inflight[i].origin = "move"
  /\ kind \in SettleKinds(inflight[i])
  /\ LET fc == FetchResult(kind, feats)
         applies == MoveApplies(fc)
         newLayer == IF applies THEN ReplaceLayer(layer, fc.features) ELSE layer
     IN /\ layer' = newLayer
        /\ inflight' = RemoveAt(IF applies THEN MarkOlderStale(inflight, i) ELSE inflight, i)
        /\ ev' = [SettleEv(inflight[i], kind, applies, newLayer # layer) EXCEPT
                    !.empty = EmptyResult(fc), !.feats = fc.features]
  /\ UNCHANGED <<layerOnMap, moveTimer, fitPending, mapLayer, clicks, numClicks,
                 markers, sinceMove, moveEvents, burstFetches,
                 auxVars>>

\* the layer a continuation of the initial load fills is the layer in
\* wfsLayerRef whatever has happened to the map since
LoadsShownLayerAlways(f) == TRUE

\* the layer a continuation of the initial load fills (the geoJsonLayer of its
\* effect run) is the layer in wfsLayerRef: not after the cleanup of that run
LoadsShownLayer(f) == ~f.gone

\* the load's continuation ends with geoJsonLayer.addTo(map), as
\* onOverlayAdd does with the hook's layer
LayerOnAfterLoadAdded(on, fc) == on \/ ~fc.isNull

\* the load's continuation calls addData and fitBounds and nothing else: the
\* layer is on the map afterwards iff it was before
LayerOnAfterLoad(on, fc) == on

\* Map's initial load after its await: add the features to the layer of its
\* effect run and fit the view to them.  After the cleanup of that run the
\* layer is no longer Map's layer, and fitBounds throws on the removed map
\* (the load's catch logs it).  `inside` says that fitBounds fires its
\* moveend before it returns; a subscribed onMoveEnd then runs inside the
\* call.
SettleInit(i, kind, feats, inside) ==
  /\ i \in DOMAIN inflight
  /\ inflight[i].origin = "init"
  /\ kind \in SettleKinds(inflight[i])
  /\ LET f == inflight[i]
         fc == FetchResult(kind, feats)
         shown == LoadsShownLayer(f)
         newLayer == IF fc.isNull \/ ~shown THEN mapLayer
                     ELSE mapLayer \o MapSublayers(fc.features)
         fits == ~fc.isNull /\ ~f.gone /\ Len(newLayer) > 0
         accepted == fits /\ inside /\ Subscribed /\ hasLayer(layerOnMap)
     IN /\ inside => fits
        /\ mapLayer' = newLayer
        /\ fitPending' = (fitPending \/ (fits /\ ~inside))
        /\ moveTimer' = IF accepted THEN RestartTimer(moveTimer) ELSE moveTimer
        /\ sinceMove' = IF accepted THEN 0 ELSE sinceMove
        /\ moveEvents' = IF ~accepted THEN moveEvents
                         ELSE IF OpensBurst THEN 1 ELSE Min(moveEvents + 1, MaxBurst)
        /\ burstFetches' = IF accepted /\ OpensBurst THEN 0 ELSE burstFetches
        /\ inflight' = RemoveAt(IF fc.isNull THEN inflight
                                ELSE MarkOlderStale(inflight, i), i)
        /\ late' = IF torn
                   THEN [late EXCEPT !.layerChanged = (@ \/ newLayer # mapLayer),
                                     !.lossy = (@ \/ Delivered(f.aborted, kind))]
                   ELSE late
        /\ mount' = IF f.gone THEN mount
                    ELSE [mount EXCEPT !.wfsLayerOn = LayerOnAfterLoad(@, fc)]
        /\ ev' = [SettleEv(f, kind, ~fc.isNull /\ shown, newLayer # mapLayer) EXCEPT
                    !.empty = EmptyResult(fc), !.feats = fc.features,
                    !.fit = FitKind(fits, inside)]
  /\ UNCHANGED <<layerOnMap, layer, clicks, numClicks, markers, tiles, torn, call>>


(***************************************************************************)
(* The click resolution controller (Map.handleMapClick).                   *)
(***************************************************************************)
\* a click that has not happened.  `cfg` says that the handler's
\* loadWfsAtPoint has both WFS props, `gone` that the map the handler holds
\* has been removed; `lossy` is history: a transport call of the resolution
\* delivered a result after its abort
NoClick ==
  [phase |-> "idle", aborted |-> FALSE, query |-> "none", fields |-> <<>>,
   hasErr |-> FALSE, msg |-> <<>>, wfs |-> "none", wfsFeats |-> <<>>,
   rendered |-> "none", html |-> <<>>, lossy |-> FALSE, cfg |-> FALSE,
   gone |-> FALSE]

\* wfsUrl && wfsTypeName
WfsSet(m) == m.wfsUrl # "" /\ m.wfsTypeName # ""

QueryOutcome(kind, fields, msg) == [kind |-> kind, fields |-> fields, msg |-> msg]

\* the ways selectByXY settles: AbortError (needs an aborted signal), a thrown
\* Error (failed status or parsererror), null (no Element), the field list
QueryOutcomes(c) ==
  (IF clicks[c].aborted THEN {QueryOutcome("abort", <<>>, <<>>)} ELSE {})
    \cup {QueryOutcome("error", <<>>, m) : m \in ErrMsgs}
    \cup {QueryOutcome("null", <<>>, <<>>)}
    \cup {QueryOutcome("fields", fl, <<>>) : fl \in FieldLists \cup {<<>>}}

\* an empty field list is taken for "no object", like null
QueryBranchEmptyAsNull(out) ==
  CASE out.kind = "abort" -> "cancelled"
    [] out.kind = "error" -> "fallback"
    [] out.kind = "null" -> "fallback"
    [] out.kind = "fields" /\ out.fields = <<>> -> "fallback"
    [] OTHER -> "render"

\* a field list, even a non-empty one, is taken for "no object"
QueryBranchFieldsAsNull(out) ==
  CASE out.kind = "abort" -> "cancelled"
    [] OTHER -> "fallback"

\* handleMapClick after selectByXY: an AbortError ends the resolution, any
\* other error and null go to the WFS fallback, a field list is rendered
QueryBranch(out) ==
  CASE out.kind = "abort" -> "cancelled"
    [] out.kind = "error" -> "fallback"
    [] out.kind = "null" -> "fallback"
    [] OTHER -> "render"

Rendering(kind, html) == [kind |-> kind, html |-> html]

\* the popup after a fallback without features is always the error popup
FallbackRenderAlwaysError(wfsGeo, hasErr, msg) ==
  IF ~wfsGeo.isNull /\ Len(wfsGeo.features) > 0
  THEN Rendering("marker", PropsPopupHtml(wfsGeo.features[1].properties))
  ELSE Rendering("error", ErrorHtml(msg))

\* the error popup is shown whatever the fallback returned
FallbackRenderErrorFirst(wfsGeo, hasErr, msg) ==
  IF hasErr THEN Rendering("error", ErrorHtml(msg))
  ELSE IF ~wfsGeo.isNull /\ Len(wfsGeo.features) > 0
  THEN Rendering("marker", PropsPopupHtml(wfsGeo.features[1].properties))
  ELSE Rendering("notfound", NotFoundHtml)

\* the branches without features show no popup
FallbackRenderNoPopup(wfsGeo, hasErr, msg) ==
  IF ~wfsGeo.isNull /\ Len(wfsGeo.features) > 0
  THEN Rendering("marker", PropsPopupHtml(wfsGeo.features[1].properties))
  ELSE Rendering("none", <<>>)

\* handleMapClick after loadWfsAtPoint, in the null branch (hasErr false) and
\* in the catch branch (hasErr true): marker and popup of the first feature,
\* else "not found", else the point query's error message
FallbackRender(wfsGeo, hasErr, msg) ==
  IF ~wfsGeo.isNull /\ Len(wfsGeo.features) > 0
  THEN Rendering("marker", PropsPopupHtml(wfsGeo.features[1].properties))
  ELSE IF hasErr THEN Rendering("error", ErrorHtml(msg))
  ELSE Rendering("notfound", NotFoundHtml)

\* addMarkerWithPopup: a marker with its popup joins the markers group
addMarkerWithPopup(ms, c, html) == Append(ms, [click |-> c, html |-> html])

\* a click on the map: handleMapClick up to its await.  The controller of
\* the previous click is aborted, the markers are cleared, the point query
\* is sent.
Click ==
  /\ mount.clickOn # 0
  /\ mount.clickOn = mount.map
  /\ numClicks < MaxClicks
  /\ Room(1)
  /\ numClicks' = numClicks + 1
  /\ clicks' = [c \in 1..MaxClicks |->
                  IF c = numClicks + 1
                  THEN [NoClick EXCEPT !.phase = "query", !.cfg = WfsSet(mount)]
                  ELSE IF c = numClicks THEN [clicks[c] EXCEPT !.aborted = TRUE]
                  ELSE clicks[c]]
  /\ markers' = <<>>
  /\ ev' = [NoEv EXCEPT !.type = "click", !.click = numClicks + 1]
  /\ UNCHANGED <<layerOnMap, layer, inflight, moveTimer, fitPending, mapLayer,
                 sinceMove, moveEvents, burstFetches,
                 auxVars>>

\* selectByXY settles and handleMapClick goes on to its next await or its end.
\* Without the WFS props loadWfsAtPoint returns null and sends no request:
\* the handler renders at once.
QueryDone(c, out) ==
  /\ c \in 1..MaxClicks
  /\ clicks[c].phase = "query"
  /\ ~clicks[c].gone
  /\ out \in QueryOutcomes(c)
  /\ LET branch == QueryBranch(out)
         sends == branch = "fallback" /\ clicks[c].cfg
         html == FieldsPopupHtml(out.fields)
         r == FallbackRender(NullFc, out.kind = "error", out.msg)
         seen == [clicks[c] EXCEPT !.query = out.kind, !.fields = out.fields,
                                   !.lossy = Delivered(clicks[c].aborted, out.kind)]
     IN /\ clicks' =
             [clicks EXCEPT ![c] =
                CASE branch = "cancelled" -> [seen EXCEPT !.phase = "done"]
                  [] branch = "render" ->
                       [seen EXCEPT !.phase = "done", !.rendered = "marker", !.html = html]
                  [] sends ->
                       [seen EXCEPT !.phase = "fallback",
                                    !.hasErr = (out.kind = "error"), !.msg = out.msg]
                  [] OTHER ->
                       [seen EXCEPT !.phase = "done", !.wfs = "off",
                                    !.hasErr = (out.kind = "error"), !.msg = out.msg,
                                    !.rendered = r.kind, !.html = r.html]]
        /\ markers' = IF branch = "render" THEN addMarkerWithPopup(markers, c, html)
                      ELSE markers
        /\ inflight' = IF sends THEN fetchForBbox(inflight, "click", c) ELSE inflight
        /\ ev' = [NoEv EXCEPT !.type = "query", !.click = c, !.kind = out.kind,
                              !.latest = (c = numClicks),
                              !.applied = (branch = "render")]
  /\ UNCHANGED <<layerOnMap, layer, moveTimer, fitPending, mapLayer, numClicks,
                 sinceMove, moveEvents, burstFetches,
                 auxVars>>

\* loadWfsAtPoint settles and handleMapClick renders the result
SettleClick(i, kind, feats) ==
  /\ i \in DOMAIN inflight
  /\ inflight[i].origin = "click"
  /\ ~inflight[i].gone
  /\ kind \in SettleKinds(inflight[i])
  /\ LET c == inflight[i].click
         wfsGeo == FetchResult(kind, feats)
         r == FallbackRender(wfsGeo, clicks[c].hasErr, clicks[c].msg)
     IN /\ clicks' = [clicks EXCEPT ![c] =
                        [@ EXCEPT !.phase = "done", !.wfs = kind,
                                  !.wfsFeats = wfsGeo.features,
                                  !.rendered = r.kind, !.html = r.html,
                                  !.lossy = (@ \/ Delivered(inflight[i].aborted, kind))]]
        /\ markers' = IF r.kind = "marker" THEN addMarkerWithPopup(markers, c, r.html)
                      ELSE markers
        /\ inflight' = RemoveAt(inflight, i)
        /\ ev' = [SettleEv(inflight[i], kind, TRUE, FALSE) EXCEPT
                    !.latest = (c = numClicks)]
  /\ UNCHANGED <<layerOnMap, layer, moveTimer, fitPending, mapLayer, numClicks,
                 sinceMove, moveEvents, burstFetches,
                 auxVars>>

(***************************************************************************)
(* The tile layer (ZWSLayer.createTile).  Leaflet's grid asks for a tile,  *)
(* createTile sends the request and gives the img element back; the grid   *)
(* may drop the tile at any time afterwards (it scrolled out of view or    *)
(* its zoom level was pruned).  createTile passes no signal to fetch and   *)
(* registers nothing with the grid, so dropping a tile runs no code of     *)
(* the layer.                                                              *)
(***************************************************************************)
\* a tile the grid has not asked for.  `created` and `released` count the
\* calls of URL.createObjectURL and URL.revokeObjectURL for the tile's blob,
\* `done` is what the done callback was called with, `removed` says that the
\* grid dropped the tile, `signalled` that the request's abort was signalled,
\* `lateDone` that done was called with the tile after the grid dropped it.
NoTile ==
  [phase |-> "idle", created |-> 0, released |-> 0, done |-> "none",
   removed |-> FALSE, signalled |-> FALSE, lateDone |-> FALSE,
   sent |-> 0, doneCalls |-> 0, why |-> "none"]

\* .then(blob => ...): the handle is created and becomes the img's src
OnBlob(tile) == [tile EXCEPT !.phase = "loading", !.created = @ + 1]

\* the .catch without its call of done
OnFetchErrorSilent(tile, why) == [tile EXCEPT !.phase = "failed", !.why = why]

\* .catch(err => done(err)): a failed status ("status") or a rejected fetch
\* ("rejected")
OnFetchError(tile, why) ==
  [tile EXCEPT !.phase = "failed", !.done = "error", !.doneCalls = @ + 1, !.why = why]

\* tile.onload: release the handle, done(undefined, tile)
OnLoad(tile) ==
  [tile EXCEPT !.phase = "ready", !.released = @ + 1, !.done = "tile",
               !.doneCalls = @ + 1, !.lateDone = tile.removed]

\* tile.onerror without the release of the handle
OnErrorNoRevoke(tile) ==
  [tile EXCEPT !.phase = "broken", !.done = "error", !.doneCalls = @ + 1, !.why = "image"]

\* tile.onerror: release the handle, done(Error)
OnError(tile) ==
  [tile EXCEPT !.phase = "broken", !.released = @ + 1, !.done = "error",
               !.doneCalls = @ + 1, !.why = "image"]

\* the grid of the map that exists calls createTile: the request is sent
createTile(t) ==
  /\ mount.map # 0
  /\ tiles[t].phase = "idle"
  /\ tiles' = [tiles EXCEPT ![t].phase = "fetching", ![t].sent = @ + 1]
  /\ UNCHANGED <<coreVars, torn, late, call, mount>>

\* the tile request fails
TileFetchFails(t) ==
  /\ tiles[t].phase = "fetching"
  /\ \E why \in {"status", "rejected"} : tiles' = [tiles EXCEPT ![t] = OnFetchError(@, why)]
  /\ UNCHANGED <<coreVars, torn, late, call, mount>>

\* the tile request delivers its blob
TileBlobArrives(t) ==
  /\ tiles[t].phase = "fetching"
  /\ tiles' = [tiles EXCEPT ![t] = OnBlob(@)]
  /\ UNCHANGED <<coreVars, torn, late, call, mount>>

\* the img element has loaded the blob
TileImageLoads(t) ==
  /\ tiles[t].phase = "loading"
  /\ tiles' = [tiles EXCEPT ![t] = OnLoad(@)]
  /\ UNCHANGED <<coreVars, torn, late, call, mount>>

\* the img element could not decode the blob
TileImageFails(t) ==
  /\ tiles[t].phase = "loading"
  /\ tiles' = [tiles EXCEPT ![t] = OnError(@)]
  /\ UNCHANGED <<coreVars, torn, late, call, mount>>

\* the grid drops the tile; no code of ZWSLayer runs
RemoveTile(t) ==
  /\ tiles[t].phase # "idle"
  /\ ~tiles[t].removed
  /\ tiles' = [tiles EXCEPT ![t].removed = TRUE]
  /\ UNCHANGED <<coreVars, torn, late, call, mount>>


(***************************************************************************)
(* What is pending when the cleanup of Map's effect removes the map goes   *)
(* on: promises settle and their continuations run with the map, the layer *)
(* and the props of the effect run they belong to.  Leaflet's map.remove() *)
(* deletes the map's panes, and a later fitBounds or openOn on that map    *)
(* throws.  addMarkerWithPopup reads the refs when it is called: it        *)
(* returns at once while they are null and uses the new map's markers      *)
(* group once Map's effect has run again.                                  *)
(***************************************************************************)
\* nothing was done after the unmount; `lossy` says that a transport call
\* delivered a result after the cleanup had aborted it
NoLate == [fetch |-> FALSE, layerChanged |-> FALSE, lossy |-> FALSE]

\* the request sent last belongs to a handler whose map has been removed
SentGone(fs) == [fs EXCEPT ![Len(fs)].gone = TRUE]

\* the message of the TypeError that openOn throws on a removed map
RemovedMapMsg == <<"T">>

\* selectByXY settles for a click on a map that has been removed since:
\* handleMapClick goes on.  A field list reaches addMarkerWithPopup.  Null or
\* an error goes to loadWfsAtPoint, which sends the fallback request; without
\* the WFS props it returns null, openOn throws, and the handler ends (from
\* the try block by way of the catch block, whose openOn throws again).
QueryDoneDown(c, out) ==
  /\ c \in 1..MaxClicks
  /\ clicks[c].phase = "query"
  /\ clicks[c].gone
  /\ out \in QueryOutcomes(c)
  /\ LET branch == QueryBranch(out)
         sends == branch = "fallback" /\ clicks[c].cfg
         marks == branch = "render" /\ mount.map # 0
         html == FieldsPopupHtml(out.fields)
         seen == [clicks[c] EXCEPT !.query = out.kind, !.fields = out.fields,
                                   !.lossy = Delivered(clicks[c].aborted, out.kind)]
     IN /\ clicks' =
             [clicks EXCEPT ![c] =
                CASE sends -> [seen EXCEPT !.phase = "fallback",
                                           !.hasErr = (out.kind = "error"),
                                           !.msg = out.msg]
                  [] marks -> [seen EXCEPT !.phase = "done", !.rendered = "marker",
                                           !.html = html]
                  [] OTHER -> [seen EXCEPT !.phase = "done"]]
        /\ markers' = IF marks THEN addMarkerWithPopup(markers, c, html) ELSE markers
        /\ inflight' = IF sends THEN SentGone(fetchForBbox(inflight, "click", c))
                       ELSE inflight
        /\ late' = IF torn
                   THEN [late EXCEPT !.fetch = (@ \/ sends),
                                     !.lossy = (@ \/ Delivered(clicks[c].aborted, out.kind))]
                   ELSE late
        /\ ev' = [NoEv EXCEPT !.type = "query", !.click = c, !.kind = out.kind,
                              !.latest = (c = numClicks), !.applied = marks]
  /\ UNCHANGED <<layerOnMap, layer, moveTimer, fitPending, mapLayer, numClicks,
                 sinceMove, moveEvents, burstFetches, tiles, torn, call, mount>>

\* loadWfsAtPoint settles for a click on a map that has been removed since.
\* A feature reaches addMarkerWithPopup.  Otherwise the popup's openOn
\* throws: in the null branch the throw is inside the try block, so the
\* catch block takes it for a failed point query and sends the fallback
\* request again; in the catch block the throw ends the handler.
SettleClickDown(i, kind, feats) ==
  /\ i \in DOMAIN inflight
  /\ inflight[i].origin = "click"
  /\ inflight[i].gone
  /\ kind \in SettleKinds(inflight[i])
  /\ LET c == inflight[i].click
         wfsGeo == FetchResult(kind, feats)
         r == FallbackRender(wfsGeo, clicks[c].hasErr, clicks[c].msg)
         again == r.kind = "notfound"
         marks == r.kind = "marker" /\ mount.map # 0
         seen == [clicks[c] EXCEPT !.wfs = kind, !.wfsFeats = wfsGeo.features,
                                   !.lossy = (@ \/ Delivered(inflight[i].aborted, kind))]
     IN /\ clicks' =
             [clicks EXCEPT ![c] =
                CASE again -> [seen EXCEPT !.hasErr = TRUE, !.msg = RemovedMapMsg]
                  [] marks -> [seen EXCEPT !.phase = "done", !.rendered = "marker",
                                           !.html = r.html]
                  [] OTHER -> [seen EXCEPT !.phase = "done"]]
        /\ markers' = IF marks THEN addMarkerWithPopup(markers, c, r.html) ELSE markers
        /\ inflight' = IF again
                       THEN SentGone(fetchForBbox(RemoveAt(inflight, i), "click", c))
                       ELSE RemoveAt(inflight, i)
        /\ late' = IF torn
                   THEN [late EXCEPT !.fetch = (@ \/ again),
                                     !.lossy = (@ \/ Delivered(inflight[i].aborted, kind))]
                   ELSE late
        /\ ev' = [SettleEv(inflight[i], kind, marks, FALSE) EXCEPT
                    !.latest = (c = numClicks)]
  /\ UNCHANGED <<layerOnMap, layer, moveTimer, fitPending, mapLayer, numClicks,
                 sinceMove, moveEvents, burstFetches, tiles, torn, call, mount>>

(***************************************************************************)
(* The parsing functions.  They are pure: `call` holds the function, its   *)
(* input and, once the function has run, its result.  A text is a sequence *)
(* of one-character strings.                                               *)
(***************************************************************************)
\* no parsing function has been called
NoCall == [fn |-> "none", arg |-> <<>>, done |-> FALSE, ret |-> <<>>]

\* the call of fn on arg, before it runs
Call(fn, arg) == [fn |-> fn, arg |-> arg, done |-> FALSE, ret |-> <<>>]

\* the characters of the texts: two digits, white space, and a character
\* that is neither
Digits == {"1", "2"}
IsSpace(ch) == ch = " "
Chars == Digits \cup {" ", "x"}

\* the texts of at most n characters
RECURSIVE TextsUpTo(_)
TextsUpTo(n) ==
  IF n = 0 THEN {<<>>}
  ELSE LET shorter == TextsUpTo(n - 1)
       IN  shorter \cup {Append(t, ch) : t \in {u \in shorter : Len(u) = n - 1}, ch \in Chars}

\* String.prototype.trim
RECURSIVE trim(_)
trim(s) ==
  IF s = <<>> THEN s
  ELSE IF IsSpace(Head(s)) THEN trim(Tail(s))
  ELSE IF IsSpace(s[Len(s)]) THEN trim(SubSeq(s, 1, Len(s) - 1))
  ELSE s

\* s.split(/\s+/) from character i on, cur being the piece read so far: a
\* run of white space ends a piece, and the pieces before the first run and
\* after the last one are there even when they are empty
RECURSIVE SplitFrom(_, _, _)
SplitFrom(s, i, cur) ==
  IF i > Len(s) THEN <<cur>>
  ELSE IF IsSpace(s[i])
       THEN IF i > 1 /\ IsSpace(s[i - 1])
            THEN SplitFrom(s, i + 1, cur)
            ELSE <<cur>> \o SplitFrom(s, i + 1, <<>>)
       ELSE SplitFrom(s, i + 1, Append(cur, s[i]))

SplitWs(s) == SplitFrom(s, 1, <<>>)

\* the value of a digit
DigitValue(ch) == IF ch = "1" THEN 1 ELSE 2

\* a JavaScript value that is a number, NaN or undefined
Num(n) == [kind |-> "number", val |-> n]
NaN == [kind |-> "NaN", val |-> 0]
Undefined == [kind |-> "undefined", val |-> 0]

\* Number(token) for a token without white space: the empty string is 0, a
\* string of digits is its decimal value, anything else is NaN
RECURSIVE Decimal(_)
Decimal(tok) ==
  IF tok = <<>> THEN 0
  ELSE 10 * Decimal(SubSeq(tok, 1, Len(tok) - 1)) + DigitValue(tok[Len(tok)])

Number(tok) ==
  IF \A i \in DOMAIN tok : tok[i] \in Digits THEN Num(Decimal(tok)) ELSE NaN

\* pieces.map(Number)
Numbers(pieces) == [i \in DOMAIN pieces |-> Number(pieces[i])]

\* xs[i] of an array, 1-based: undefined out of range
At(xs, i) == IF i \in DOMAIN xs THEN xs[i] ELSE Undefined

\* the loop with the bound i < nums.length
RECURSIVE PairsFromToEnd(_, _)
PairsFromToEnd(nums, i) ==
  IF i <= Len(nums)
  THEN <<(<<At(nums, i), At(nums, i + 1)>>)>> \o PairsFromToEnd(nums, i + 2)
  ELSE <<>>

\* the loop of parsePosList from index i (1-based) on
RECURSIVE PairsFrom(_, _)
PairsFrom(nums, i) ==
  IF i < Len(nums)
  THEN <<(<<At(nums, i), At(nums, i + 1)>>)>> \o PairsFrom(nums, i + 2)
  ELSE <<>>

parsePosList(text) ==
  LET nums == SelectSeq(Numbers(SplitWs(trim(text))), LAMBDA n : n # NaN)
  IN  PairsFrom(nums, 1)

(***************************************************************************)
(* XML documents.  An element has a namespace prefix ("" when it has       *)
(* none), a local name, child elements and, when it has no children, a     *)
(* text.  The DOM's queries are modelled as the DOM defines them for an    *)
(* XML document: getElementsByTagName compares the qualified name          *)
(* (prefix:local), case-sensitively, over the descendants in document      *)
(* order.                                                                  *)
(***************************************************************************)
El(prefix, local, kids) == [prefix |-> prefix, local |-> local, kids |-> kids, text |-> <<>>]
Leaf(prefix, local, text) == [prefix |-> prefix, local |-> local, kids |-> <<>>, text |-> text]

\* the Document node of a root element
Document(root) == El("", "#document", <<root>>)

\* Element.tagName
tagName(el) == IF el.prefix = "" THEN el.local ELSE el.prefix \o ":" \o el.local

\* the descendants of the elements of a sequence, these included, in
\* document order
RECURSIVE DescendantsOrSelf(_)
DescendantsOrSelf(els) ==
  IF els = <<>> THEN <<>>
  ELSE <<Head(els)>> \o DescendantsOrSelf(Head(els).kids) \o DescendantsOrSelf(Tail(els))

getElementsByTagName(ctx, name) ==
  SelectSeq(DescendantsOrSelf(ctx.kids), LAMBDA d : name = "*" \/ tagName(d) = name)

\* Node.textContent
RECURSIVE TextOfAll(_)
TextOfAll(els) ==
  IF els = <<>> THEN <<>>
  ELSE Head(els).text \o TextOfAll(Head(els).kids) \o TextOfAll(Tail(els))

textContent(el) == TextOfAll(<<el>>)

\* localName.toLowerCase(), for the names of the documents
toLowerCase(name) ==
  CASE name = "FeatureCollection" -> "featurecollection"
    [] name = "featureMember" -> "featuremember"
    [] name = "featureMembers" -> "featuremembers"
    [] name = "boundedBy" -> "boundedby"
    [] name = "Envelope" -> "envelope"
    [] name = "Point" -> "point"
    [] name = "LineString" -> "linestring"
    [] name = "Polygon" -> "polygon"
    [] name = "LinearRing" -> "linearring"
    [] name = "posList" -> "poslist"
    [] name = "lowerCorner" -> "lowercorner"
    [] name = "upperCorner" -> "uppercorner"
    [] OTHER -> name

\* els[0] || more[0], as a sequence of at most one element
FirstOf(els, more) ==
  IF els # <<>> THEN <<els[1]>> ELSE IF more # <<>> THEN <<more[1]>> ELSE <<>>

\* el?.textContent of an optional element; undefined and "" are both falsy
\* and both the empty text here
OptText(opt) == IF opt = <<>> THEN <<>> ELSE textContent(opt[1])

\* a || b of two texts
TextOr(a, b) == IF a # <<>> THEN a ELSE b

\* s.split(','), from character i on
RECURSIVE SplitCommaFrom(_, _, _)
SplitCommaFrom(s, i, cur) ==
  IF i > Len(s) THEN <<cur>>
  ELSE IF s[i] = "," THEN <<cur>> \o SplitCommaFrom(s, i + 1, <<>>)
  ELSE SplitCommaFrom(s, i + 1, Append(cur, s[i]))

SplitComma(s) == SplitCommaFrom(s, 1, <<>>)

\* parsePos: null (the empty sequence) or a position
parsePos(text) ==
  LET nums == Numbers(SplitWs(trim(text)))
  IN  IF Len(nums) >= 2 THEN <<(<<nums[1], nums[2]>>)>> ELSE <<>>

Geometry(type, coordinates) == [type |-> type, coordinates |-> coordinates]

\* the Point branch of parseGeometryFromElement: null or a geometry
PointOf(el) ==
  LET pointEl == FirstOf(getElementsByTagName(el, "Point"),
                         getElementsByTagName(el, "gml:Point"))
  IN  IF pointEl = <<>> THEN <<>>
      ELSE LET pos == FirstOf(getElementsByTagName(pointEl[1], "pos"),
                              getElementsByTagName(pointEl[1], "gml:pos"))
               coordsText ==
                 TextOr(OptText(pos),
                        OptText(FirstOf(getElementsByTagName(pointEl[1], "coordinates"), <<>>)))
               p == parsePos(coordsText)
           IN  IF coordsText # <<>> /\ p # <<>>
               THEN <<Geometry("Point", p[1])>>
               ELSE <<>>

\* the LineString branch
LineStringOf(el) ==
  LET lineEl == FirstOf(getElementsByTagName(el, "LineString"),
                        getElementsByTagName(el, "gml:LineString"))
  IN  IF lineEl = <<>> THEN <<>>
      ELSE LET posList == FirstOf(getElementsByTagName(lineEl[1], "posList"),
                                  getElementsByTagName(lineEl[1], "gml:posList"))
               coordsText ==
                 TextOr(OptText(posList),
                        OptText(FirstOf(getElementsByTagName(lineEl[1], "coordinates"), <<>>)))
           IN  IF coordsText = <<>> THEN <<>>
               ELSE IF OptText(posList) # <<>>
               THEN <<Geometry("LineString", parsePosList(OptText(posList)))>>
               ELSE LET pieces == SplitWs(trim(coordsText))
                    IN  <<Geometry("LineString",
                                   [i \in DOMAIN pieces |-> Numbers(SplitComma(pieces[i]))])>>

\* the Polygon branch
PolygonOf(el) ==
  LET polyEl == FirstOf(getElementsByTagName(el, "Polygon"),
                        getElementsByTagName(el, "gml:Polygon"))
  IN  IF polyEl = <<>> THEN <<>>
      ELSE LET exterior == FirstOf(getElementsByTagName(polyEl[1], "exterior"),
                                   getElementsByTagName(polyEl[1], "gml:exterior"))
               linearRing ==
                 IF exterior = <<>> THEN <<>>
                 ELSE FirstOf(getElementsByTagName(exterior[1], "LinearRing"),
                              getElementsByTagName(exterior[1], "gml:LinearRing"))
               ringPosList ==
                 IF linearRing = <<>> THEN <<>>
                 ELSE FirstOf(getElementsByTagName(linearRing[1], "posList"),
                              getElementsByTagName(linearRing[1], "gml:posList"))
               ringCoordinates ==
                 IF linearRing = <<>> THEN <<>>
                 ELSE FirstOf(getElementsByTagName(linearRing[1], "coordinates"), <<>>)
               polyPosList == FirstOf(getElementsByTagName(polyEl[1], "posList"),
                                      getElementsByTagName(polyEl[1], "gml:posList"))
               coordsText ==
                 IF exterior # <<>>
                 THEN TextOr(OptText(ringPosList), OptText(ringCoordinates))
                 ELSE OptText(polyPosList)
               ringCoords == IF coordsText # <<>> THEN parsePosList(coordsText) ELSE <<>>
           IN  IF ringCoords # <<>> THEN <<Geometry("Polygon", <<ringCoords>>)>> ELSE <<>>

\* the last branch: any posList under the element
AnyPosListOf(el) ==
  LET anyPosList == FirstOf(getElementsByTagName(el, "posList"),
                            getElementsByTagName(el, "gml:posList"))
  IN  IF OptText(anyPosList) = <<>> THEN <<>>
      ELSE LET coords == parsePosList(OptText(anyPosList))
           IN  IF Len(coords) = 1
               THEN <<Geometry("Point", coords[1])>>
               ELSE <<Geometry("LineString", coords)>>

\* parseGeometryFromElement: null (the empty sequence) or a geometry
parseGeometryFromElement(el) ==
  IF PointOf(el) # <<>> THEN PointOf(el)
  ELSE IF LineStringOf(el) # <<>> THEN LineStringOf(el)
  ELSE IF PolygonOf(el) # <<>> THEN PolygonOf(el)
  ELSE AnyPosListOf(el)

\* findAll: the elements of the first name that has any
RECURSIVE findAll(_, _)
findAll(names, ctx) ==
  IF names = <<>> THEN <<>>
  ELSE IF getElementsByTagName(ctx, Head(names)) # <<>>
       THEN getElementsByTagName(ctx, Head(names))
       ELSE findAll(Tail(names), ctx)

\* the member elements of a document
Members(xml) ==
  LET named == findAll(<<"featureMember", "gml:featureMember", "member", "gml:member">>, xml)
      fm == getElementsByTagName(xml, "featureMembers")
      wrapped == IF named = <<>> /\ fm # <<>> /\ fm[1].kids # <<>> THEN fm[1].kids ELSE named
  IN  IF wrapped # <<>> THEN wrapped
      ELSE SelectSeq(xml.kids[1].kids,
                     LAMBDA el : toLowerCase(el.local) \notin
                       {"boundedby", "featurecollection", "wfs:featurecollection",
                        "gml:featurecollection"})

\* the element of a member that is read as the feature
ActualFeatureEl(memberEl) ==
  LET found == SelectSeq(memberEl.kids,
                         LAMBDA c : toLowerCase(c.local) \notin
                           {"boundedby", "the_geom", "geometry", "envelope"})
  IN  IF found # <<>> THEN found[1]
      ELSE IF memberEl.kids # <<>> THEN memberEl.kids[1]
      ELSE memberEl

\* props[key] = value: properties are kept in insertion order
SetProp(props, key, value) ==
  IF \E i \in DOMAIN props : props[i].key = key
  THEN [i \in DOMAIN props |->
          IF props[i].key = key THEN [key |-> key, value |-> value] ELSE props[i]]
  ELSE Append(props, [key |-> key, value |-> value])

\* a child of the feature element is not read as a property
SkipChild(child) ==
  \/ toLowerCase(child.local) \in
       {"point", "linestring", "polygon", "pos", "poslist", "the_geom", "geometry",
        "coordinates", "linearring", "boundedby", "envelope"}
  \/ \E name \in {"posList", "pos", "Point", "LineString", "Polygon"} :
       getElementsByTagName(child, name) # <<>>

\* the loop over the children of the feature element
RECURSIVE PropsOf(_, _)
PropsOf(children, props) ==
  IF children = <<>> THEN props
  ELSE PropsOf(Tail(children),
               IF SkipChild(Head(children)) THEN props
               ELSE SetProp(props, Head(children).local, trim(textContent(Head(children)))))

\* the first geometry that the elements of a sequence give
RECURSIVE FirstGeometry(_)
FirstGeometry(els) ==
  IF els = <<>> THEN <<>>
  ELSE IF parseGeometryFromElement(Head(els)) # <<>>
       THEN parseGeometryFromElement(Head(els))
       ELSE FirstGeometry(Tail(els))

\* the geometry of a feature element: null (the empty sequence) or a geometry
GeometryOf(actualFeatureEl) ==
  IF parseGeometryFromElement(actualFeatureEl) # <<>>
  THEN parseGeometryFromElement(actualFeatureEl)
  ELSE FirstGeometry(SelectSeq(getElementsByTagName(actualFeatureEl, "*"),
                               LAMBDA c : toLowerCase(c.local) \in
                                 {"point", "linestring", "polygon", "poslist", "pos",
                                  "coordinates"}))

\* geometry: null
NullGeometry == Geometry("null", <<>>)

Feature(props, geometry) ==
  [type |-> "Feature", properties |-> props,
   geometry |-> IF geometry = <<>> THEN NullGeometry ELSE geometry[1]]

FeatureOf(memberEl) ==
  Feature(PropsOf(ActualFeatureEl(memberEl).kids, <<>>), GeometryOf(ActualFeatureEl(memberEl)))

FeatureCollection(features) == [type |-> "FeatureCollection", features |-> features]

\* the return value null
NullResult == [type |-> "null", features |-> <<>>]

(***************************************************************************)
(* The inputs of parseWfsXmlToGeoJson.  A well-formed input is a feature   *)
(* collection described by its shape: how the members are wrapped, whether *)
(* the GML tags carry the gml: prefix, whether the collection has a        *)
(* boundedBy, and for every member the value of its `name` attribute, the  *)
(* name of its geometry property and the kind of its geometry.  The other  *)
(* inputs are the empty string and texts that are not well-formed: a text  *)
(* without a root element, <a><b></a>, and a collection cut right          *)
(* after the start tag of the `name` attribute of its last member.         *)
(***************************************************************************)
\* the most members of a document
MaxMembers == 2

Wrappers == {"featureMember", "member", "featureMembers", "children"}
GeomKinds == {"none", "PointPos", "LinePosList", "LineCoordinates", "Polygon"}

FeatureShapes ==
  {sh \in [name : {<<"a">>, <<"b">>}, geomProp : {"the_geom", "geom"}, geom : GeomKinds] :
     sh.geom = "none" => sh.geomProp = "the_geom"}

XmlShape(wrapper, prefixed, bounded, members) ==
  [kind |-> "xml", wrapper |-> wrapper, prefixed |-> prefixed, bounded |-> bounded,
   members |-> members]

NotXml(kind) ==
  [kind |-> kind, wrapper |-> "children", prefixed |-> FALSE, bounded |-> FALSE,
   members |-> <<>>]

\* a collection of that shape cut inside its last member
CutShape(wrapper, prefixed, bounded, members) ==
  [kind |-> "cut", wrapper |-> wrapper, prefixed |-> prefixed, bounded |-> bounded,
   members |-> members]

XmlInputs ==
  {XmlShape(w, p, b, ms) :
     w \in Wrappers, p \in BOOLEAN, b \in BOOLEAN,
     ms \in UNION {[1..n -> FeatureShapes] : n \in 0..MaxMembers}}
  \cup {NotXml("empty"), NotXml("malformed"), NotXml("text")}

\* the texts cut inside their last member
CutInputs ==
  {CutShape(w, p, b, ms) :
     w \in Wrappers, p \in BOOLEAN, b \in BOOLEAN,
     ms \in UNION {[1..n -> FeatureShapes] : n \in 1..MaxMembers}}

\* the GML element of a geometry kind, g being the prefix of the GML tags
GeomEl(kind, g) ==
  CASE kind = "PointPos" ->
         El(g, "Point", <<Leaf(g, "pos", <<"1", " ", "2">>)>>)
    [] kind = "LinePosList" ->
         El(g, "LineString", <<Leaf(g, "posList", <<"1", " ", "2", " ", "2", " ", "1">>)>>)
    [] kind = "LineCoordinates" ->
         El(g, "LineString", <<Leaf(g, "coordinates", <<"1", ",", "2", " ", "2", ",", "1">>)>>)
    [] kind = "Polygon" ->
         El(g, "Polygon",
            <<El(g, "exterior",
                 <<El(g, "LinearRing",
                      <<Leaf(g, "posList",
                             <<"1", " ", "1", " ", "1", " ", "2", " ",
                               "2", " ", "2", " ", "1", " ", "1">>)>>)>>)>>)

\* the element of a feature: its attribute, then its geometry property
FeatureEl(sh, g) ==
  El("", "road",
     <<Leaf("", "name", sh.name)>> \o
     (IF sh.geom = "none" THEN <<>> ELSE <<El("", sh.geomProp, <<GeomEl(sh.geom, g)>>)>>))

BoundedByEl(g) ==
  El(g, "boundedBy",
     <<El(g, "Envelope", <<Leaf(g, "lowerCorner", <<"1", " ", "1">>),
                           Leaf(g, "upperCorner", <<"2", " ", "2">>)>>)>>)

\* the element of a feature cut after <name>: the parser closes what is open
CutFeatureEl == El("", "road", <<Leaf("", "name", <<>>)>>)

\* the element the XML parser puts into the document of a text that is not
\* well-formed: a heading, the parser's message, a second heading
ParserError(diag) ==
  El("", "parsererror",
     <<Leaf("", "h3", ErrorsHead), Leaf("", "div", diag), Leaf("", "h3", RenderingHead)>>)

\* the parser's error block goes in front of the root's children
WithParserError(root, diag) == [root EXCEPT !.kids = <<ParserError(diag)>> \o @]

\* the document element of a collection, whole or parsed up to its cut
RootOf(in) ==
  LET g == IF in.prefixed THEN "gml" ELSE ""
      feats == [i \in DOMAIN in.members |->
                  IF in.kind = "cut" /\ i = Len(in.members) THEN CutFeatureEl
                  ELSE FeatureEl(in.members[i], g)]
      body == CASE in.wrapper = "featureMember" ->
                     [i \in DOMAIN feats |-> El(g, "featureMember", <<feats[i]>>)]
                [] in.wrapper = "member" ->
                     [i \in DOMAIN feats |-> El(g, "member", <<feats[i]>>)]
                [] in.wrapper = "featureMembers" ->
                     <<El(g, "featureMembers", feats)>>
                [] in.wrapper = "children" -> feats
  IN  El(IF in.prefixed THEN "wfs" ELSE "", "FeatureCollection",
         (IF in.bounded THEN <<BoundedByEl(g)>> ELSE <<>>) \o body)

\* DOMParser.parseFromString(xmlText, 'application/xml'): the document of a
\* well-formed text; for any other text the document parsed up to the error,
\* with the parser's error block in it (it does not throw)
parseFromString(in) ==
  CASE in.kind = "xml" -> Document(RootOf(in))
    [] in.kind = "cut" -> Document(WithParserError(RootOf(in), <<"e">>))
    [] in.kind = "text" ->
         Document(El("", "html", <<El("", "body", <<ParserError(NoRootDiag)>>)>>))
    [] OTHER -> Document(WithParserError(El("", "a", <<Leaf("", "b", <<>>)>>), <<"e">>))

parseWfsXmlToGeoJson(in) ==
  IF in.kind = "empty" THEN NullResult
  ELSE LET members == Members(parseFromString(in))
       IN  FeatureCollection([i \in DOMAIN members |-> FeatureOf(members[i])])

\* the parser reads a response
RunParse ==
  /\ call.fn = "parseWfsXmlToGeoJson"
  /\ ~call.done
  /\ call' = [call EXCEPT !.done = TRUE, !.ret = parseWfsXmlToGeoJson(call.arg)]
  /\ UNCHANGED <<coreVars, tiles, torn, late, mount>>

(***************************************************************************)
(* ZWSService.selectByXY.  Its input here is the HTTP response to the      *)
(* point query: the status, and the body described by its shape (not       *)
(* well-formed: an Element left open; well-formed without an Element;      *)
(* well-formed with an Element and its fields).  `diag` is the text of the *)
(* parser's error for a body that is not well-formed, and the body itself  *)
(* of a response whose status is not a success; `statusText` is the reason *)
(* phrase of the status line, which a server may leave empty.              *)
(***************************************************************************)
\* the most fields of an element
MaxFields == 2

\* a field: whether it has a UserName and a Value, and their texts
FieldShapes == [userName : {"absent", "empty", "text"}, value : {"absent", "text"}]

ZwsResponses ==
  [status : {"200", "500"},
   body : {"malformed", "noElement", "element"},
   statusText : {<<>>, <<"S">>},
   fields : UNION {[1..n -> FieldShapes] : n \in 0..MaxFields},
   diag : {<<>>, <<"e">>}]

\* Response.ok
Ok(resp) == resp.status = "200"

FieldEl(sh) ==
  El("", "Field",
     (CASE sh.userName = "absent" -> <<>>
        [] sh.userName = "empty" -> <<Leaf("", "UserName", <<>>)>>
        [] sh.userName = "text" -> <<Leaf("", "UserName", <<"n">>)>>) \o
     (IF sh.value = "absent" THEN <<>> ELSE <<Leaf("", "Value", <<"v">>)>>))

\* DOMParser.parseFromString(xmlText, 'text/xml') of a response body
BodyDocument(resp) ==
  CASE resp.body = "malformed" ->
         Document(WithParserError(El("", "zwsResponse", <<Leaf("", "Element", <<>>)>>),
                                  resp.diag))
    [] resp.body = "noElement" ->
         Document(El("", "zwsResponse", <<Leaf("", "RetVal", <<"1">>)>>))
    [] resp.body = "element" ->
         Document(El("", "zwsResponse",
                     <<El("", "Element",
                          <<El("", "Records",
                               [i \in DOMAIN resp.fields |-> FieldEl(resp.fields[i])])>>)>>))

\* querySelectorAll with a type selector: the descendants of that name
querySelectorAll(ctx, name) ==
  SelectSeq(DescendantsOrSelf(ctx.kids), LAMBDA d : d.local = name)

\* querySelector: null (the empty sequence) or the first of them
querySelector(ctx, name) == FirstOf(querySelectorAll(ctx, name), <<>>)

\* the outcomes of selectByXY
Fields(fields) == [kind |-> "fields", fields |-> fields, msg |-> <<>>]
NullFields == [kind |-> "null", fields |-> <<>>, msg |-> <<>>]
Thrown(msg) == [kind |-> "error", fields |-> <<>>, msg |-> msg]

FieldOf(f) ==
  [userName |-> IF querySelector(f, "UserName") = <<>> THEN <<"Unknown">>
                ELSE textContent(querySelector(f, "UserName")[1]),
   value |-> IF querySelector(f, "Value") = <<>> THEN <<>>
             ELSE textContent(querySelector(f, "Value")[1])]

\* the fields of the Element
FieldsOf(element) ==
  LET fs == querySelectorAll(element, "Field")
  IN  [i \in DOMAIN fs |-> FieldOf(fs[i])]

\* parseFields without the test for a parsererror
parseFieldsUnchecked(xmlDoc) ==
  IF querySelector(xmlDoc, "Element") = <<>> THEN NullFields
  ELSE Fields(FieldsOf(querySelector(xmlDoc, "Element")[1]))

parseFields(xmlDoc) ==
  IF querySelector(xmlDoc, "parsererror") # <<>>
  THEN Thrown(<<"XML parse error: ">> \o textContent(querySelector(xmlDoc, "parsererror")[1]))
  ELSE IF querySelector(xmlDoc, "Element") = <<>> THEN NullFields
  ELSE Fields(FieldsOf(querySelector(xmlDoc, "Element")[1]))

\* selectByXY from the response on; the message of a failed status is
\* `ZWS responded: ${resp.status} ${resp.statusText} ${text}`
selectByXY(resp) ==
  IF ~Ok(resp)
  THEN Thrown(<<"ZWS responded: ", resp.status, " ">> \o resp.statusText \o <<" ">>
                \o resp.diag)
  ELSE parseFields(BodyDocument(resp))

\* selectByXY has called resp.text() and awaits the body
ReadingBody == [kind |-> "reading"]

\* await fetch settles with the response: selectByXY tests resp.ok and calls
\* resp.text() on either branch, then awaits it
SelectResponse ==
  /\ call.fn = "selectByXY"
  /\ ~call.done
  /\ call.ret = <<>>
  /\ call' = [call EXCEPT !.ret = ReadingBody]
  /\ UNCHANGED <<coreVars, tiles, torn, late, mount>>

\* await resp.text() settles: selectByXY throws for a failed status, else
\* returns parseFields(text)
SelectBody ==
  /\ call.fn = "selectByXY"
  /\ ~call.done
  /\ call.ret = ReadingBody
  /\ call' = [call EXCEPT !.done = TRUE, !.ret = selectByXY(call.arg)]
  /\ UNCHANGED <<coreVars, tiles, torn, late, mount>>

\* the point query from its response on, step by step between its awaits
RunSelect ==
  \/ SelectResponse
  \/ SelectBody

\* the longest posList text
MaxPosLen == 7
PosTexts == TextsUpTo(MaxPosLen)

\* the parser reads a posList
RunPosList ==
  /\ call.fn = "parsePosList"
  /\ ~call.done
  /\ call' = [call EXCEPT !.done = TRUE, !.ret = parsePosList(call.arg)]
  /\ UNCHANGED <<coreVars, tiles, torn, late, mount>>

\* the most children of a feature element
MaxChildren == 3

\* the children a feature element is built from: an attribute `name` with
\* one of two values, a geometry as a direct child, a Polygon with a hole, a
\* Polygon with an interior ring only, a geometry property holding a Point,
\* and a boundedBy
ChildKinds ==
  {"name_a", "name_b", "Point", "LineString", "Polygon", "PolygonHole",
   "PolygonInterior", "geomPoint", "boundedBy"}

ExteriorText == <<"1", " ", "1", " ", "1", " ", "2", " ", "2", " ", "2", " ", "1", " ", "1">>
InteriorText == <<"2", " ", "2", " ", "2", " ", "1", " ", "1", " ", "1", " ", "2", " ", "2">>

\* a ring of a Polygon: role is exterior or interior
RingEl(g, role, text) ==
  El(g, role, <<El(g, "LinearRing", <<Leaf(g, "posList", text)>>)>>)

\* the child element of a kind, g being the prefix of the GML tags
ChildEl(kind, g) ==
  CASE kind = "name_a" -> Leaf("", "name", <<"a">>)
    [] kind = "name_b" -> Leaf("", "name", <<"b">>)
    [] kind = "Point" -> GeomEl("PointPos", g)
    [] kind = "LineString" -> GeomEl("LinePosList", g)
    [] kind = "Polygon" -> El(g, "Polygon", <<RingEl(g, "exterior", ExteriorText)>>)
    [] kind = "PolygonHole" ->
         El(g, "Polygon", <<RingEl(g, "exterior", ExteriorText),
                            RingEl(g, "interior", InteriorText)>>)
    [] kind = "PolygonInterior" ->
         El(g, "Polygon", <<RingEl(g, "interior", InteriorText)>>)
    [] kind = "geomPoint" -> El("", "geom", <<GeomEl("PointPos", g)>>)
    [] kind = "boundedBy" -> BoundedByEl(g)

\* a member holding one feature element with the children of the kinds
MemberEl(in) ==
  El("", "member",
     <<El("", "road",
          [i \in DOMAIN in.kids |->
             ChildEl(in.kids[i], IF in.prefixed THEN "gml" ELSE "")])>>)

FeatureInputs ==
  {[prefixed |-> p, kids |-> ks] :
     p \in BOOLEAN, ks \in UNION {[1..n -> ChildKinds] : n \in 0..MaxChildren}}

\* the parser reads one member: the body of the loop over the members
RunFeature ==
  /\ call.fn = "FeatureOf"
  /\ ~call.done
  /\ call' = [call EXCEPT !.done = TRUE, !.ret = FeatureOf(MemberEl(call.arg))]
  /\ UNCHANGED <<coreVars, tiles, torn, late, mount>>

\* the longest text of a coordinate element
MaxGeomLen == 4
GeomChars == Chars \cup {","}

\* the texts of at most n characters of GeomChars
RECURSIVE GeomTextsUpTo(_)
GeomTextsUpTo(n) ==
  IF n = 0 THEN {<<>>}
  ELSE LET shorter == GeomTextsUpTo(n - 1)
       IN  shorter \cup {Append(t, ch) : t \in {u \in shorter : Len(u) = n - 1}, ch \in GeomChars}

GeomTexts == GeomTextsUpTo(MaxGeomLen)

\* the places of a coordinate text in a GML geometry
GeomPlaces ==
  {"PointPos", "PointCoordinates", "LinePosList", "LineCoordinates",
   "PolygonRing", "PolygonBare", "BarePosList"}

\* a feature element whose geometry property holds the text at a place, g
\* being the prefix of the GML tags
GeomFeatureEl(place, g, text) ==
  El("", "road",
     <<CASE place = "PointPos" ->
              El("", "geom", <<El(g, "Point", <<Leaf(g, "pos", text)>>)>>)
         [] place = "PointCoordinates" ->
              El("", "geom", <<El(g, "Point", <<Leaf(g, "coordinates", text)>>)>>)
         [] place = "LinePosList" ->
              El("", "geom", <<El(g, "LineString", <<Leaf(g, "posList", text)>>)>>)
         [] place = "LineCoordinates" ->
              El("", "geom", <<El(g, "LineString", <<Leaf(g, "coordinates", text)>>)>>)
         [] place = "PolygonRing" ->
              El("", "geom",
                 <<El(g, "Polygon",
                      <<El(g, "exterior",
                           <<El(g, "LinearRing", <<Leaf(g, "posList", text)>>)>>)>>)>>)
         [] place = "PolygonBare" ->
              El("", "geom", <<El(g, "Polygon", <<Leaf(g, "posList", text)>>)>>)
         [] place = "BarePosList" ->
              El("", "geom", <<Leaf(g, "posList", text)>>)>>)

GeomInputs ==
  {[place |-> pl, prefixed |-> p, text |-> t] :
     pl \in GeomPlaces, p \in BOOLEAN, t \in GeomTexts}

\* the parser reads the geometry of a feature element
RunGeometry ==
  /\ call.fn = "parseGeometryFromElement"
  /\ ~call.done
  /\ call' = [call EXCEPT
                !.done = TRUE,
                !.ret = parseGeometryFromElement(
                          GeomFeatureEl(call.arg.place,
                                        IF call.arg.prefixed THEN "gml" ELSE "",
                                        call.arg.text))]
  /\ UNCHANGED <<coreVars, tiles, torn, late, mount>>


(***************************************************************************)
(* The proxy.  There are two handlers: `handler` fetches the target as it  *)
(* was given, `handlerDecoding` decodes it once more and rebuilds it.  A   *)
(* target is a text of tokens: the scheme, host names, "@", the escape of  *)
(* "@", a stray "%", and a path.  The URL parser is modelled as the URL    *)
(* standard defines it for these texts: a text without a scheme is not a   *)
(* URL; the slashes after the scheme are skipped, however many there are,  *)
(* so that the text of a path that follows the scheme at once is read as   *)
(* the authority; the authority ends at the first path token; what         *)
(* precedes its last "@" is the userinfo; the host is percent-decoded and  *)
(* must then be non-empty and free of "@" and "%"; the path of a URL       *)
(* without one is "/".                                                     *)
(* A handler runs in three steps, one per await: up to fetch(), from the   *)
(* upstream response to arrayBuffer(), and from the body to res.send().    *)
(***************************************************************************)
\* the most tokens in the authority of a target
MaxAuthLen == 3

ALLOWED_HOSTS == { <<"zs.zulugis.ru">> }

isAllowedHost(hostname) == hostname \in ALLOWED_HOSTS

AuthTokens == {"zs.zulugis.ru", "evil.com", "@", "%40", "%"}
PathTokens == {"/ws", "/%"}

\* the target texts: with or without scheme, an authority, with or without
\* a path
TargetTexts ==
  {(IF sch THEN <<"http://">> ELSE <<>>) \o auth \o path :
     sch \in BOOLEAN,
     auth \in UNION {[1..n -> AuthTokens] : n \in 0..MaxAuthLen},
     path \in {<<>>} \cup {<<pt>> : pt \in PathTokens}}

\* decodeURIComponent: throws URIError on a stray "%", else decodes the
\* escapes
decodeURIComponent(text) ==
  IF \E i \in DOMAIN text : text[i] \in {"%", "/%"}
  THEN [thrown |-> TRUE, value |-> <<>>]
  ELSE [thrown |-> FALSE,
        value |-> [i \in DOMAIN text |-> IF text[i] = "%40" THEN "@" ELSE text[i]]]

\* the tokens that start a path: those of the targets and the root path
Slashed == PathTokens \cup {"/"}

\* the index of the first path token of a text, or one past its end
PathStart(text) ==
  LET at == {i \in DOMAIN text : text[i] \in Slashed}
  IN  IF at = {} THEN Len(text) + 1 ELSE CHOOSE i \in at : \A j \in at : i <= j

\* a path token without its leading slash, as a text of tokens
Unslashed(tok) ==
  CASE tok = "/ws" -> <<"ws">>
    [] tok = "/%" -> <<"%">>
    [] OTHER -> <<>>

RECURSIVE NewURL(_)
\* new URL(text): the empty sequence when it throws, else the URL
NewURL(text) ==
  IF text = <<>> \/ text[1] # "http://" THEN <<>>
  ELSE IF Len(text) >= 2 /\ text[2] \in Slashed
  THEN NewURL(<<"http://">> \o Unslashed(text[2]) \o SubSeq(text, 3, Len(text)))
  ELSE LET authority == SubSeq(text, 2, PathStart(text) - 1)
           ats == {i \in DOMAIN authority : authority[i] = "@"}
           lastAt == IF ats = {} THEN 0 ELSE CHOOSE i \in ats : \A j \in ats : j <= i
           host == SubSeq(authority, lastAt + 1, Len(authority))
           path == SubSeq(text, PathStart(text), Len(text))
       IN  IF host = <<>> \/ \E i \in DOMAIN host : host[i] \in {"%40", "%", "@"}
           THEN <<>>
           ELSE <<[userinfo |-> SubSeq(authority, 1, lastAt - 1),
                   hostname |-> host,
                   pathname |-> IF path = <<>> THEN <<"/">> ELSE path]>>

\* URL.toString(): an "@" of the userinfo is escaped, an empty userinfo is
\* left out
toString(url) ==
  <<"http://">> \o
  (IF url.userinfo = <<>> THEN <<>>
   ELSE [i \in DOMAIN url.userinfo |->
           IF url.userinfo[i] = "@" THEN "%40" ELSE url.userinfo[i]] \o <<"@">>) \o
  url.hostname \o url.pathname

\* buildTargetUrl, for a request whose query holds no parameter but url
buildTargetUrl(originalUrl) == toString(NewURL(originalUrl)[1])

\* a request to the proxy: the url parameter and the x-target-url header,
\* each absent (the empty sequence) or a text
ProxyRequests ==
  {[query |-> q, header |-> h] :
     q \in {<<>>} \cup {<<t>> : t \in TargetTexts},
     h \in {<<>>, <<(<<"http://", "zs.zulugis.ru", "/ws">>)>>,
            <<(<<"http://", "evil.com">>)>>}}

\* req.query.url || req.headers['x-target-url']: an empty text is falsy
TargetOf(req) ==
  IF req.query # <<>> /\ req.query[1] # <<>> THEN req.query
  ELSE IF req.header # <<>> /\ req.header[1] # <<>> THEN req.header
  ELSE <<>>

\* what a handler has done so far: the status it has set (0 for none), the
\* host name it has checked and the text it has fetched, if any, and where
\* it stands: waiting for the upstream response ("fetch"), for its body
\* ("body"), or finished ("sent")
Answer(status, checked, fetched) ==
  [status |-> status, checked |-> checked, fetched |-> fetched,
   at |-> IF status = 0 THEN "fetch" ELSE "sent"]

\* the handler that fetches the target as given, up to its fetch()
handler(req) ==
  LET target == TargetOf(req)
  IN  IF target = <<>> THEN Answer(400, <<>>, <<>>)
      ELSE IF NewURL(target[1]) = <<>> THEN Answer(400, <<>>, <<>>)
      ELSE IF ~isAllowedHost(NewURL(target[1])[1].hostname)
           THEN Answer(403, <<NewURL(target[1])[1].hostname>>, <<>>)
      ELSE Answer(0, <<NewURL(target[1])[1].hostname>>, target)

\* the handler that decodes the target and rebuilds it, up to its fetch();
\* the URIError of decodeURIComponent is caught by the outer catch
handlerDecoding(req) ==
  LET rawUrl == TargetOf(req)
  IN  IF rawUrl = <<>> THEN Answer(400, <<>>, <<>>)
      ELSE LET decoded == decodeURIComponent(rawUrl[1])
           IN  IF decoded.thrown THEN Answer(500, <<>>, <<>>)
               ELSE IF NewURL(decoded.value) = <<>> THEN Answer(400, <<>>, <<>>)
               ELSE IF ~isAllowedHost(NewURL(decoded.value)[1].hostname)
                    THEN Answer(403, <<NewURL(decoded.value)[1].hostname>>, <<>>)
               ELSE Answer(0, <<NewURL(decoded.value)[1].hostname>>,
                           <<buildTargetUrl(decoded.value)>>)

\* the outer catch after a rejected await: the decoding handler answers 499
\* to an AbortError, everything else is answered 500
Caught(fn, err) == IF fn = "handlerDecoding" /\ err = "AbortError" THEN 499 ELSE 500

\* the ways an await of the handler can be rejected
Rejections == {"TypeError", "AbortError"}

\* a request reaches a handler, which runs up to its first await
ProxyStart ==
  /\ call.fn \in {"handler", "handlerDecoding"}
  /\ ~call.done
  /\ call.ret = <<>>
  /\ LET a == IF call.fn = "handler" THEN handler(call.arg) ELSE handlerDecoding(call.arg)
     IN  call' = [call EXCEPT !.ret = a, !.done = (a.at = "sent")]
  /\ UNCHANGED <<coreVars, tiles, torn, late, mount>>

\* fetch() settles: the upstream status is copied to the response, or the
\* rejection is caught
ProxyFetched ==
  /\ call.fn \in {"handler", "handlerDecoding"}
  /\ ~call.done
  /\ call.ret # <<>>
  /\ call.ret.at = "fetch"
  /\ \/ \E status \in {200, 404} :
          call' = [call EXCEPT !.ret.status = status, !.ret.at = "body"]
     \/ \E err \in Rejections :
          call' = [call EXCEPT !.ret.status = Caught(call.fn, err), !.ret.at = "sent",
                               !.done = TRUE]
  /\ UNCHANGED <<coreVars, tiles, torn, late, mount>>

\* arrayBuffer() settles: the body is sent with the status that was copied,
\* or the rejection is caught
ProxyBody ==
  /\ call.fn \in {"handler", "handlerDecoding"}
  /\ ~call.done
  /\ call.ret # <<>>
  /\ call.ret.at = "body"
  /\ \/ call' = [call EXCEPT !.ret.at = "sent", !.done = TRUE]
     \/ \E err \in Rejections :
          call' = [call EXCEPT !.ret.status = Caught(call.fn, err), !.ret.at = "sent",
                               !.done = TRUE]
  /\ UNCHANGED <<coreVars, tiles, torn, late, mount>>

\* a request is served by one of the handlers
RunProxy ==
  \/ ProxyStart
  \/ ProxyFetched
  \/ ProxyBody

(***************************************************************************)
(* The life of the component.  Map calls useWfsLayer before it declares    *)
(* its own effect (Map.tsx 69 and 224), and React runs the effects of a    *)
(* component in the order of their declaration, the cleanups of a commit   *)
(* before its effects.  `mount` holds the props the effects depend on, the *)
(* map instance in mapRef (0 for null, else the number of the instance),   *)
(* the instance the hook's three handlers and Map's click handler are      *)
(* subscribed on (0 for none), whether each effect has returned a cleanup, *)
(* and whether Map's WFS layer is on the map.                              *)
(***************************************************************************)
\* the most renders of Map after its mount
MaxRenders == 2

\* the props App passes to Map
AppWfsUrl == "http://zs.zulugis.ru:6473/ws"
AppWfsTypeName == "world:world"

\* values of the props wfsUrl and wfsTypeName: absent, or a text
WfsUrls == {"", AppWfsUrl, "http://other/ws"}
WfsTypeNames == {"", AppWfsTypeName}

\* Map has rendered and no effect has run
NotMounted(url, type) ==
  [mounted |-> "no", wfsUrl |-> url, wfsTypeName |-> type, map |-> 0, maps |-> 0,
   handlersOn |-> 0, clickOn |-> 0, hookCleanup |-> FALSE, initCleanup |-> FALSE,
   renders |-> 0, wfsLayerOn |-> FALSE]

\* the hook's effect: nothing without a map or without the WFS props, else
\* the three handlers are subscribed and a cleanup is returned
HookEffect(m) ==
  IF m.map = 0 \/ ~WfsSet(m)
  THEN [m EXCEPT !.hookCleanup = FALSE]
  ELSE [m EXCEPT !.handlersOn = m.map, !.hookCleanup = TRUE]

\* Map's effect: nothing when mapRef holds a map, else a new map is created,
\* the click handler is subscribed and a cleanup is returned
InitEffect(m) ==
  IF m.map # 0
  THEN [m EXCEPT !.initCleanup = FALSE]
  ELSE [m EXCEPT !.maps = @ + 1, !.map = m.maps + 1, !.clickOn = m.maps + 1,
                 !.initCleanup = TRUE]

\* the effects of a commit, in the order of their declaration in Map
RunEffects(m, hook, init) ==
  LET a == IF hook THEN HookEffect(m) ELSE m
  IN  IF init THEN InitEffect(a) ELSE a

\* the cleanup of the hook's effect: map.off for the three handlers
HookCleanup(m) ==
  IF m.hookCleanup THEN [m EXCEPT !.handlersOn = 0, !.hookCleanup = FALSE] ELSE m

\* the cleanup of Map's effect: map.off('click'), map.remove() (which drops
\* every listener and every layer of the map), mapRef.current = null
InitCleanup(m) ==
  IF m.initCleanup
  THEN [m EXCEPT !.clickOn = 0, !.map = 0, !.initCleanup = FALSE,
                 !.wfsLayerOn = FALSE,
                 !.handlersOn = IF @ = m.map THEN 0 ELSE @]
  ELSE m

\* Map's cleanup on the click resolutions: abortRef.current?.abort() aborts
\* the controller of the last click; the handlers that are running keep the
\* removed map
CleanClicks ==
  [c \in 1..MaxClicks |->
     [clicks[c] EXCEPT !.aborted = (@ \/ c = numClicks),
                       !.gone = (@ \/ clicks[c].phase \in {"query", "fallback"})]]

\* the cleanups on the requests in flight: their continuations keep the
\* removed map; the hook's cleanup, where its effect has returned one,
\* aborts the current controller of fetchForBbox
CleanInflight(hook) ==
  LET kept == [i \in DOMAIN inflight |-> [inflight[i] EXCEPT !.gone = TRUE]]
  IN  IF hook THEN AbortCurrent(kept) ELSE kept

\* map.remove() takes the tile layer off the map: the grid drops its tiles
CleanTiles ==
  [t \in 1..MaxTiles |->
     IF tiles[t].phase = "idle" THEN tiles[t] ELSE [tiles[t] EXCEPT !.removed = TRUE]]

\* the first commit of Map: the hook's effect finds no map and returns;
\* Map's effect creates the map and its layers (the WFS layer only with both
\* WFS props, in the layers control and off the map), sends the initial load
\* and subscribes the click handler
MountMap ==
  /\ mount.mounted = "no"
  /\ mount' = [RunEffects(mount, TRUE, TRUE) EXCEPT !.mounted = "yes"]
  /\ inflight' = IF WfsSet(mount) THEN fetchForBbox(inflight, "init", 0) ELSE inflight
  /\ ev' = [NoEv EXCEPT !.type = "mount"]
  /\ UNCHANGED <<layerOnMap, layer, moveTimer, fitPending, mapLayer, clicks, numClicks,
                 markers, sinceMove, moveEvents, burstFetches, tiles, torn, late, call>>

\* Map renders again with the props url and type; auth says that another
\* dependency of Map's effect alone has changed (zwsAuth is a new object).
\* The cleanups of the effects whose dependencies changed run, then these
\* effects: with a changed dependency of Map's effect the map is removed and
\* a new one created, with an empty WFS layer and a new initial load.
Rerender(url, type, auth) ==
  /\ mount.mounted = "yes"
  /\ mount.renders < MaxRenders
  /\ LET hook == url # mount.wfsUrl \/ type # mount.wfsTypeName
         init == hook \/ auth
         a == IF hook THEN HookCleanup(mount) ELSE mount
         b == IF init THEN InitCleanup(a) ELSE a
         c == [b EXCEPT !.wfsUrl = url, !.wfsTypeName = type, !.renders = @ + 1]
         cleaned == CleanInflight(hook /\ mount.hookCleanup)
     IN  /\ init /\ WfsSet(c) => Room(1)
         /\ mount' = RunEffects(c, hook, init)
         /\ inflight' = IF ~init THEN inflight
                        ELSE IF WfsSet(c) THEN fetchForBbox(cleaned, "init", 0)
                        ELSE cleaned
         /\ clicks' = IF init THEN CleanClicks ELSE clicks
         /\ markers' = IF init THEN <<>> ELSE markers
         /\ mapLayer' = IF init THEN <<>> ELSE mapLayer
         /\ fitPending' = IF init THEN FALSE ELSE fitPending
         /\ layerOnMap' = IF init THEN FALSE ELSE layerOnMap
         /\ tiles' = IF init THEN CleanTiles ELSE tiles
         /\ ev' = [NoEv EXCEPT !.type = "render", !.applied = init]
  /\ UNCHANGED <<layer, moveTimer, numClicks, sinceMove, moveEvents, burstFetches,
                 torn, late, call>>

\* Map unmounts: the cleanups run in the order of the effects.  The hook's,
\* where its effect has returned one, unsubscribes its handlers and aborts
\* the current controller of fetchForBbox; Map's aborts the controller of
\* the last click, unsubscribes the click handler and removes the map with
\* its layers and markers.  Neither clears the debounce timeout.
Unmount ==
  /\ mount.mounted = "yes"
  /\ torn' = TRUE
  /\ mount' = [InitCleanup(HookCleanup(mount)) EXCEPT !.mounted = "gone"]
  /\ inflight' = CleanInflight(mount.hookCleanup)
  /\ clicks' = CleanClicks
  /\ markers' = <<>>
  /\ mapLayer' = <<>>
  /\ fitPending' = FALSE
  /\ layerOnMap' = FALSE
  /\ tiles' = CleanTiles
  /\ ev' = [NoEv EXCEPT !.type = "unmount"]
  /\ UNCHANGED <<layer, moveTimer, numClicks, sinceMove, moveEvents, burstFetches,
                 late, call>>

\* the user ticks 'WFS (GeoJSON)' in the layers control: the control adds
\* Map's WFS layer to the map and fires overlayadd, which Map does not
\* listen to (a subscribed onOverlayAdd of the hook returns for a layer that
\* is not its own)
ControlAdd ==
  /\ mount.map # 0
  /\ WfsSet(mount)
  /\ ~mount.wfsLayerOn
  /\ mount' = [mount EXCEPT !.wfsLayerOn = TRUE]
  /\ ev' = [NoEv EXCEPT !.type = "overlayadd", !.origin = "map"]
  /\ UNCHANGED <<layerOnMap, layer, inflight, moveTimer, fitPending, mapLayer, clicks,
                 numClicks, markers, sinceMove, moveEvents, burstFetches, tiles, torn,
                 late, call>>

\* the user unticks 'WFS (GeoJSON)': the control takes Map's WFS layer off
\* the map and fires overlayremove, which Map does not listen to
ControlRemove ==
  /\ mount.map # 0
  /\ mount.wfsLayerOn
  /\ mount' = [mount EXCEPT !.wfsLayerOn = FALSE]
  /\ inflight' = CutStream(inflight, {"init"})
  /\ ev' = [NoEv EXCEPT !.type = "overlayremove", !.origin = "map"]
  /\ UNCHANGED <<layerOnMap, layer, moveTimer, fitPending, mapLayer, clicks, numClicks,
                 markers, sinceMove, moveEvents, burstFetches, tiles, torn, late, call>>

\* the hook's effect as it runs for a caller whose map exists when the
\* effect runs: the hook's layer is created and put into the layers control,
\* the three handlers are subscribed.  No commit of Map takes this step.
HookEffectRuns ==
  /\ mount.map # 0
  /\ WfsSet(mount)
  /\ mount.handlersOn = 0
  /\ mount' = HookEffect(mount)
  /\ ev' = [NoEv EXCEPT !.type = "effect"]
  /\ UNCHANGED <<coreVarsButEv, tiles, torn, late, call>>


(***************************************************************************)
(* The system.                                                             *)
(***************************************************************************)
\* Map has rendered for the first time and no effect has run: no map, no
\* layer, no request
InitCore ==
  /\ layerOnMap = FALSE
  /\ layer = <<>>
  /\ inflight = <<>>
  /\ moveTimer = NoTimer
  /\ fitPending = FALSE
  /\ mapLayer = <<>>
  /\ clicks = [c \in 1..MaxClicks |-> NoClick]
  /\ numClicks = 0
  /\ markers = <<>>
  /\ sinceMove = LongAgo
  /\ moveEvents = 0
  /\ burstFetches = 0
  /\ ev = NoEv
  /\ tiles = [t \in 1..MaxTiles |-> NoTile]
  /\ torn = FALSE
  /\ late = NoLate

InitApp ==
  /\ InitCore
  /\ mount = NotMounted(AppWfsUrl, AppWfsTypeName)

Init ==
  /\ InitApp
  /\ call = NoCall

\* a request in flight settles in one of the continuations of the program
Settles ==
  \E i \in 1..MaxInflight : \E kind \in {"ok", "malformed", "fail", "abort"} :
    \E feats \in BodyFeatures(kind) :
      \/ (\E inside \in BOOLEAN : SettleInit(i, kind, feats, inside))
      \/ SettleClick(i, kind, feats)
      \/ SettleClickDown(i, kind, feats)

Next ==
  \/ MountMap
  \/ \E url \in WfsUrls : \E type \in WfsTypeNames : \E auth \in BOOLEAN :
       Rerender(url, type, auth)
  \/ Unmount
  \/ ControlAdd
  \/ ControlRemove
  \/ MoveEnd
  \/ FitMoveEnd
  \/ Click
  \/ \E c \in 1..MaxClicks : \E out \in QueryOutcomes(c) :
       QueryDone(c, out) \/ QueryDoneDown(c, out)
  \/ Settles
  \/ \E t \in 1..MaxTiles :
       \/ createTile(t)
       \/ TileFetchFails(t)
       \/ TileBlobArrives(t)
       \/ TileImageLoads(t)
       \/ TileImageFails(t)
       \/ RemoveTile(t)

Spec == Init /\ [][Next]_vars


(***************************************************************************)
(* The hook on its own: Map mounts, the hook's effect runs with the map    *)
(* (HookEffectRuns), and the user works the layers control and the         *)
(* viewport.  The behaviours of the program are among those of SpecSync    *)
(* that never take HookEffectRuns.                                         *)
(***************************************************************************)
NextSync ==
  \/ MountMap
  \/ HookEffectRuns
  \/ OverlayAdd
  \/ OverlayRemove
  \/ MoveEnd
  \/ FitMoveEnd
  \/ TimerFire
  \/ Tick
  \/ \E i \in 1..MaxInflight : \E kind \in {"ok", "malformed", "fail", "abort"} :
       \E feats \in BodyFeatures(kind) :
         \/ (\E inside \in BOOLEAN : SettleEnable(i, kind, feats, inside))
         \/ SettleMove(i, kind, feats)
         \/ (\E inside \in BOOLEAN : SettleInit(i, kind, feats, inside))

SpecSync == Init /\ [][NextSync]_vars

\* The program with a user who only clicks the map.
NextClick ==
  \/ MountMap
  \/ Click
  \/ \E c \in 1..MaxClicks : \E out \in QueryOutcomes(c) : QueryDone(c, out)
  \/ \E i \in 1..MaxInflight : \E kind \in {"ok", "malformed", "fail", "abort"} :
       \E feats \in BodyFeatures(kind) :
         \/ (\E inside \in BOOLEAN : SettleInit(i, kind, feats, inside))
         \/ SettleClick(i, kind, feats)

SpecClick == Init /\ [][NextClick]_vars

\* the point query of click c settles
QuerySettles(c) == \E out \in QueryOutcomes(c) : QueryDone(c, out)

\* the fallback request of click c settles
FallbackSettles(c) ==
  \E i \in 1..MaxInflight :
    \E kind \in {"ok", "malformed", "fail", "abort"} :
      \E feats \in BodyFeatures(kind) :
        /\ i \in DOMAIN inflight
        /\ inflight[i].click = c
        /\ SettleClick(i, kind, feats)

\* Map has mounted with App's props
Mounted == [RunEffects(NotMounted(AppWfsUrl, AppWfsTypeName), TRUE, TRUE)
              EXCEPT !.mounted = "yes"]

\* Map has mounted, its initial load has failed and left nothing behind
InitLoaded ==
  /\ layerOnMap = FALSE
  /\ layer = <<>>
  /\ inflight = <<>>
  /\ moveTimer = NoTimer
  /\ fitPending = FALSE
  /\ mapLayer = <<>>
  /\ clicks = [c \in 1..MaxClicks |-> NoClick]
  /\ numClicks = 0
  /\ markers = <<>>
  /\ sinceMove = LongAgo
  /\ moveEvents = 0
  /\ burstFetches = 0
  /\ ev = SettleEv(Request("init", 0), "fail", FALSE, FALSE)
  /\ tiles = [t \in 1..MaxTiles |-> NoTile]
  /\ torn = FALSE
  /\ late = NoLate
  /\ mount = Mounted
  /\ call = NoCall

NextClickLive ==
  \/ Click
  \/ \E c \in 1..MaxClicks : QuerySettles(c)
  \/ \E c \in 1..MaxClicks : FallbackSettles(c)

\* the clicks after the initial load, with every transport call of a
\* resolution settling in the end: the browser settles every fetch promise
\* (response, network error or abort) and the event loop runs the
\* continuation of a settled await
SpecClickLive ==
  /\ InitLoaded
  /\ [][NextClickLive]_vars
  /\ \A c \in 1..MaxClicks : WF_vars(QuerySettles(c)) /\ WF_vars(FallbackSettles(c))

\* The tile layer on its own.
NextTile ==
  \/ MountMap
  \/ \E t \in 1..MaxTiles :
       \/ createTile(t)
       \/ TileFetchFails(t)
       \/ TileBlobArrives(t)
       \/ TileImageLoads(t)
       \/ TileImageFails(t)
       \/ RemoveTile(t)

SpecTile == Init /\ [][NextTile]_vars

\* the first click on the map
FirstClick ==
  /\ numClicks = 0
  /\ Click

\* The life of the component up to and after its unmount: the map is
\* clicked once, Map unmounts, and what is pending at that moment goes on.
NextDown ==
  \/ MountMap
  \/ FirstClick
  \/ \E c \in 1..MaxClicks : \E out \in QueryOutcomes(c) :
       QueryDone(c, out) \/ QueryDoneDown(c, out)
  \/ Settles
  \/ Unmount

SpecDown == Init /\ [][NextDown]_vars

\* The initial load and one click resolution together, over a render that
\* replaces the map.
NextCross ==
  \/ MountMap
  \/ (\E auth \in BOOLEAN : Rerender(mount.wfsUrl, mount.wfsTypeName, auth))
  \/ FirstClick
  \/ \E c \in 1..MaxClicks : \E out \in QueryOutcomes(c) :
       QueryDone(c, out) \/ QueryDoneDown(c, out)
  \/ Settles

SpecCross == Init /\ [][NextCross]_vars

\* The WFS layer of the program: Map mounts and renders again, the user
\* works the layers control and the viewport, the initial loads settle.
NextLayer ==
  \/ MountMap
  \/ \E url \in WfsUrls : \E type \in WfsTypeNames : \E auth \in BOOLEAN :
       Rerender(url, type, auth)
  \/ ControlAdd
  \/ ControlRemove
  \/ MoveEnd
  \/ FitMoveEnd
  \/ \E i \in 1..MaxInflight : \E kind \in {"ok", "malformed", "fail", "abort"} :
       \E feats \in BodyFeatures(kind) : \E inside \in BOOLEAN :
         SettleInit(i, kind, feats, inside)

SpecLayer == Init /\ [][NextLayer]_vars

\* parsePosList applied to every text of PosTexts
InitPosList ==
  /\ InitApp
  /\ call \in {Call("parsePosList", t) : t \in PosTexts}

SpecPosList == InitPosList /\ [][RunPosList]_vars

\* each handler applied to every request of ProxyRequests
InitProxy ==
  /\ InitApp
  /\ call \in {Call(fn, req) : fn \in {"handler", "handlerDecoding"}, req \in ProxyRequests}

SpecProxy == InitProxy /\ [][RunProxy]_vars

\* Map mounts with or without the WFS props, renders again, unmounts
InitMount ==
  /\ InitCore
  /\ call = NoCall
  /\ mount \in {NotMounted(url, type) : url \in WfsUrls, type \in WfsTypeNames}

NextMount ==
  \/ MountMap
  \/ \E url \in WfsUrls : \E type \in WfsTypeNames : \E auth \in BOOLEAN :
       Rerender(url, type, auth)
  \/ Unmount

SpecMount == InitMount /\ [][NextMount]_vars

\* the loop body of parseWfsXmlToGeoJson applied to every member of
\* FeatureInputs
InitFeature ==
  /\ InitApp
  /\ call \in {Call("FeatureOf", in) : in \in FeatureInputs}

SpecFeature == InitFeature /\ [][RunFeature]_vars

\* parseGeometryFromElement applied to every input of GeomInputs
InitGeometry ==
  /\ InitApp
  /\ call \in {Call("parseGeometryFromElement", in) : in \in GeomInputs}

SpecGeometry == InitGeometry /\ [][RunGeometry]_vars

\* parseWfsXmlToGeoJson applied to every input of XmlInputs
InitParse ==
  /\ InitApp
  /\ \/ call \in {Call("parseWfsXmlToGeoJson", in) : in \in XmlInputs}
     \/ call \in {Call("parseWfsXmlToGeoJson", in) : in \in CutInputs}

SpecParse == InitParse /\ [][RunParse]_vars

\* selectByXY applied to every response of ZwsResponses
InitSelect ==
  /\ InitApp
  /\ call \in {Call("selectByXY", resp) : resp \in ZwsResponses}

SpecSelect == InitSelect /\ [][RunSelect]_vars


C2_OneFetchPerBurst ==
  /\ burstFetches <= 1
  /\ (moveEvents > 0 /\ sinceMove < DebounceMs) => burstFetches = 0
  /\ (moveEvents > 0 /\ sinceMove > DebounceMs) => burstFetches = 1
  /\ ev.type = "timer" => (sinceMove = DebounceMs /\ burstFetches = 1)

\* a burst of three moveend events has just got its one request
C2_Witness ==
  ev.type = "timer" /\ moveEvents >= 3 /\ burstFetches = 1 /\ sinceMove = DebounceMs

\* the WFS layer that the requests of `origin` fill
LayerOf(origin) == IF origin = "init" THEN mapLayer ELSE layer

\* C3: a request of a layer that is in flight when the layer is disabled
\* (overlayremove) has its abort signalled, and when such a request settles,
\* however it settles, a layer that held no features holds none afterwards.
C3_DisableCancelsFetch ==
  /\ [](\A i \in DOMAIN inflight : inflight[i].cut => inflight[i].aborted)
  /\ [][(/\ ev'.type = "settle"
          /\ ev'.origin \in BboxStream
          /\ ev'.cut
          /\ LayerOf(ev'.origin) = <<>>) =>
          (IF ev'.origin = "init" THEN mapLayer' ELSE layer') = <<>>]_vars

\* C5: a click resolution renders a marker or a popup only while its click is
\* the most recent one, so the markers group holds at most one marker, that
\* of the most recent click (stated for resolutions none of whose transport
\* calls delivered after an abort).
C5_OnlyLatestClickRenders ==
  (\A c \in 1..MaxClicks : ~clicks[c].lossy) =>
    /\ Len(markers) <= 1
    /\ \A i \in DOMAIN markers : markers[i].click = numClicks
    /\ (ev.type \in {"query", "settle"} /\ ev.click > 0
          /\ clicks[ev.click].rendered # "none") => ev.latest

\* C6: a click resolution whose point query or whose fallback request was
\* cancelled (settled with AbortError) shows no marker and no popup.
C6_CancelledClickShowsNothing ==
  \A c \in 1..MaxClicks :
    (clicks[c].query = "abort" \/ clicks[c].wfs = "abort") =>
      clicks[c].rendered = "none"

\* C7: a click resolution whose point query returned a non-empty field list
\* sends no fallback request and ends with a marker whose popup is built
\* from those fields.
C7_FieldsNeverFallBack ==
  /\ \A c \in 1..MaxClicks :
       (clicks[c].query = "fields" /\ Len(clicks[c].fields) > 0) =>
         /\ clicks[c].phase = "done"
         /\ clicks[c].wfs = "none"
         /\ \A i \in DOMAIN inflight : inflight[i].click # c
         /\ clicks[c].rendered = "marker"
         /\ clicks[c].html = FieldsPopupHtml(clicks[c].fields)
  /\ (ev.type = "query" /\ ev.kind = "fields" /\ Len(clicks[ev.click].fields) > 0) =>
       /\ markers # <<>>
       /\ markers[Len(markers)] =
            [click |-> ev.click, html |-> FieldsPopupHtml(clicks[ev.click].fields)]

\* a point query has just returned a non-empty field list
C7_Witness ==
  /\ ev.type = "query" /\ ev.kind = "fields"
  /\ Len(clicks[ev.click].fields) > 0
  /\ clicks[ev.click].rendered = "marker"

\* C8: a click resolution whose point query returned null and whose fallback
\* request returned a collection without features ends with the "not found"
\* popup, never the error popup.
C8_NullThenEmptyIsNotFound ==
  \A c \in 1..MaxClicks :
    (clicks[c].query = "null" /\ clicks[c].wfs = "ok" /\ clicks[c].wfsFeats = <<>>) =>
      (clicks[c].rendered = "notfound" /\ clicks[c].html = NotFoundHtml)

\* a resolution went through null and an empty collection
C8_Witness ==
  \E c \in 1..MaxClicks :
    /\ clicks[c].query = "null" /\ clicks[c].wfs = "ok" /\ clicks[c].wfsFeats = <<>>
    /\ clicks[c].phase = "done"

\* C9: after a point query that failed with an error other than AbortError
\* the fallback request is always sent; the error popup with the query's
\* message is shown exactly when the fallback gave no feature, and otherwise
\* the marker's popup is built from the first feature's properties.
C9_ErrorShownOnlyWithoutFeature ==
  \A c \in 1..MaxClicks :
    clicks[c].query = "error" =>
      /\ clicks[c].hasErr
      /\ clicks[c].phase = "fallback" =>
           \E i \in DOMAIN inflight :
             inflight[i].origin = "click" /\ inflight[i].click = c
      /\ clicks[c].phase = "done" =>
           /\ clicks[c].wfs # "none"
           /\ (clicks[c].rendered = "error") <=> (clicks[c].wfsFeats = <<>>)
           /\ clicks[c].rendered = "error" => clicks[c].html = ErrorHtml(clicks[c].msg)
           /\ clicks[c].wfsFeats # <<>> =>
                /\ clicks[c].rendered = "marker"
                /\ clicks[c].html = PropsPopupHtml(clicks[c].wfsFeats[1].properties)

\* one resolution showed the error popup after its fallback gave nothing and
\* another showed the first feature of its fallback after a failed query
C9_Witness ==
  /\ \E c \in 1..MaxClicks :
       clicks[c].query = "error" /\ clicks[c].rendered = "error"
  /\ \E c \in 1..MaxClicks :
       clicks[c].query = "error" /\ clicks[c].rendered = "marker"

\* the characters that make markup
Markup == {"<", ">", "&"}

\* no character of the remote content is markup in the popup's HTML
Escaped(html) == \A i \in DOMAIN html : html[i] \notin Markup

C11_StreamsIndependent ==
  [][\A i \in DOMAIN inflight :
       (~inflight[i].aborted /\ i \in DOMAIN inflight' /\ inflight'[i].aborted) =>
         /\ inflight[i].origin \in BboxStream =>
              /\ ev'.type \notin {"click", "query"}
              /\ ~(ev'.type = "settle" /\ ev'.origin = "click")
         /\ inflight[i].origin = "click" =>
              ev'.type \notin {"mount", "render", "overlayadd", "overlayremove",
                               "timer"}]_vars

\* the tile has settled: its request failed or its image loaded or failed
TileSettled(t) == tiles[t].phase \in {"failed", "ready", "broken"}

\* C12: the handle of a tile's blob is created at most once and released
\* exactly once, on the image's load or on its error; no handle is created
\* when the request fails; a settled tile has no unreleased handle.
C12_TileHandleReleasedOnce ==
  \A t \in 1..MaxTiles :
    /\ tiles[t].released <= tiles[t].created
    /\ tiles[t].created <= 1
    /\ tiles[t].phase \in {"idle", "fetching", "failed"} => tiles[t].created = 0
    /\ tiles[t].phase = "loading" => (tiles[t].created = 1 /\ tiles[t].released = 0)
    /\ tiles[t].phase \in {"ready", "broken"} =>
         (tiles[t].created = 1 /\ tiles[t].released = 1)
    /\ TileSettled(t) => tiles[t].released = tiles[t].created

\* every tile has settled, one by a failed request, one by a loaded image and
\* one by a failed image
C12_Witness ==
  /\ \A t \in 1..MaxTiles : TileSettled(t)
  /\ \E t \in 1..MaxTiles : tiles[t].phase = "failed"
  /\ \E t \in 1..MaxTiles : tiles[t].phase = "ready"
  /\ \E t \in 1..MaxTiles : tiles[t].phase = "broken"

\* C13: a tile request that was cancelled (the grid dropped the tile) has its
\* abort signalled, and its result is not delivered to the caller afterwards.
C13_TileFetchCancellable ==
  \A t \in 1..MaxTiles :
    /\ tiles[t].removed => tiles[t].signalled
    /\ ~tiles[t].lateDone


\* C14: after the teardown of the synchronizer and the map controller no
\* debounce timeout is pending, every request in flight has its abort
\* signalled, no bbox request is sent, the layer's content does not change
\* and no marker is shown (stated for transport calls that do not deliver
\* after the teardown aborted them).
C14_TeardownReleasesAll ==
  (torn /\ ~late.lossy) =>
    /\ moveTimer = NoTimer
    /\ \A i \in DOMAIN inflight : inflight[i].aborted
    /\ ~late.fetch
    /\ ~late.layerChanged
    /\ markers = <<>>

\* a token of a text starts at i: a character that is not white space, at
\* the start of the text or after white space
TokenStart(text, i) == ~IsSpace(text[i]) /\ (i = 1 \/ IsSpace(text[i - 1]))

\* the token that starts at i
TokenAt(text, i) ==
  LET last == CHOOSE j \in i..Len(text) :
                /\ \A m \in i..j : ~IsSpace(text[m])
                /\ j = Len(text) \/ IsSpace(text[j + 1])
  IN  SubSeq(text, i, last)

RECURSIVE TokensFrom(_, _)
TokensFrom(text, i) ==
  IF i > Len(text) THEN <<>>
  ELSE IF TokenStart(text, i) THEN <<TokenAt(text, i)>> \o TokensFrom(text, i + 1)
  ELSE TokensFrom(text, i + 1)

\* the values of the numeric tokens of a text, in order
NumericTokens(text) ==
  LET toks == SelectSeq(TokensFrom(text, 1),
                        LAMBDA tok : \A i \in DOMAIN tok : tok[i] \in Digits)
  IN  [i \in DOMAIN toks |-> Num(Decimal(toks[i]))]

\* C18: a posList of k numeric tokens parses to floor(k/2) coordinates, the
\* i-th being (token 2i, token 2i+1) counting from 0, in order; the trailing
\* value of an odd-length list is dropped
C18_PosListPairs ==
  (call.fn = "parsePosList" /\ call.done) =>
    LET toks == NumericTokens(call.arg)
        k == Len(toks)
    IN  /\ Len(call.ret) = k \div 2
        /\ \A i \in 1..(k \div 2) : call.ret[i] = <<toks[2 * i - 1], toks[2 * i]>>

\* a list of three numeric tokens has been parsed to one coordinate
C18_Witness ==
  /\ call.fn = "parsePosList"
  /\ call.done
  /\ Len(NumericTokens(call.arg)) = 3
  /\ Len(call.ret) = 1

\* a feature that can have been read from a member of the given shape: its
\* name, if it has one, is the member's, and its geometry, if it has one,
\* is of the member's kind
FromMember(f, sh) ==
  /\ \A i \in DOMAIN f.properties :
       f.properties[i].key = "name" => f.properties[i].value = sh.name
  /\ \/ f.geometry.type = "null"
     \/ sh.geom = "PointPos" /\ f.geometry.type = "Point"
     \/ sh.geom \in {"LinePosList", "LineCoordinates"} /\ f.geometry.type = "LineString"
     \/ sh.geom = "Polygon" /\ f.geometry.type = "Polygon"

\* C15: for a well-formed document with N members the parser returns
\* exactly N features, the i-th read from the i-th member; a member without
\* geometry gives a feature with geometry null
C15_OneFeaturePerMember ==
  (call.fn = "parseWfsXmlToGeoJson" /\ call.done /\ call.arg.kind = "xml") =>
    /\ call.ret.type = "FeatureCollection"
    /\ Len(call.ret.features) = Len(call.arg.members)
    /\ \A i \in DOMAIN call.arg.members :
         /\ i \in DOMAIN call.ret.features
         /\ FromMember(call.ret.features[i], call.arg.members[i])

\* two results of the parser are identical
SameGeometry(g, h) == g.type = h.type /\ g.coordinates = h.coordinates

SameFeature(f, h) == f.properties = h.properties /\ SameGeometry(f.geometry, h.geometry)

SameCollection(a, b) ==
  /\ a.type = b.type
  /\ Len(a.features) = Len(b.features)
  /\ \A i \in DOMAIN a.features : SameFeature(a.features[i], b.features[i])

\* the document of the same shape in the other dialect
OtherDialect(in) == [in EXCEPT !.prefixed = ~in.prefixed]

\* C16: two documents of the same shape, one with gml: prefixes and one
\* without, parse to identical FeatureCollections
C16_DialectIndependent ==
  (call.fn = "parseWfsXmlToGeoJson" /\ call.done /\ call.arg.kind = "xml") =>
    SameCollection(call.ret, parseWfsXmlToGeoJson(OtherDialect(call.arg)))

\* C17: the parser fails with a ParseError exactly when its input is not
\* well-formed XML, and returns a FeatureCollection for every well-formed
\* input
C17_ParseErrorIffMalformed ==
  (call.fn = "parseWfsXmlToGeoJson" /\ call.done) =>
    /\ call.ret.type = "ParseError" <=> call.arg.kind # "xml"
    /\ call.arg.kind = "xml" => call.ret.type = "FeatureCollection"

\* a message holds a text
Carries(msg, text) ==
  \E i \in 1..(Len(msg) + 1) :
    /\ i + Len(text) - 1 <= Len(msg)
    /\ SubSeq(msg, i, i + Len(text) - 1) = text

\* the field read from a field of the given shape
ReadsField(f, sh) ==
  /\ sh.userName = "text" => f.userName = <<"n">>
  /\ sh.userName = "empty" => f.userName = <<>>
  /\ sh.value = "text" => f.value = <<"v">>

\* C19: selectByXY returns null exactly when the response has no Element,
\* returns the fields of the Element, possibly none, when it has one, and
\* raises an error that carries the diagnostic text when the body is not
\* well-formed or the status is not a success
C19_SelectByXYOutcome ==
  (call.fn = "selectByXY" /\ call.done) =>
    LET resp == call.arg
        ret == call.ret
    IN  /\ (~Ok(resp) \/ resp.body = "malformed") =>
             ret.kind = "error" /\ Carries(ret.msg, resp.diag)
        /\ (Ok(resp) /\ resp.body # "malformed") =>
             /\ ret.kind = "null" <=> resp.body = "noElement"
             /\ resp.body = "element" =>
                  /\ ret.kind = "fields"
                  /\ Len(ret.fields) = Len(resp.fields)
                  /\ \A i \in DOMAIN resp.fields : ReadsField(ret.fields[i], resp.fields[i])

\* an Element with two fields has been read
C19_Witness ==
  /\ call.fn = "selectByXY"
  /\ call.done
  /\ call.ret.kind = "fields"
  /\ Len(call.ret.fields) = 2

\* the bbox requests in flight whose controller is not aborted
Unaborted == {i \in DOMAIN inflight : ~inflight[i].aborted}

\* C20: a new bbox fetch aborts the controller of the fetch issued before it
\* before it sends its request, so at most one controller in flight is not
\* aborted, and it is the one of the newest request
C20_OneLiveController ==
  /\ Cardinality(Unaborted) <= 1
  /\ \A i \in Unaborted : i = Len(inflight)

\* a second bbox fetch was issued while the first was in flight
C20_Witness ==
  /\ Len(inflight) >= 2
  /\ inflight[Len(inflight)].aborted = FALSE
  /\ inflight[1].aborted

\* the WFS layer is enabled: Map's layer or the hook's is on the map
Enabled == mount.wfsLayerOn \/ layerOnMap

\* a layer request has just failed, with a transport error or with a body
\* that is not well-formed XML
JustFailed ==
  ev.type = "settle" /\ ev.origin \in BboxStream /\ ev.kind \in {"fail", "malformed"}

\* C22: a fetch of a WFS layer that fails with a transport error (a failed
\* status, a network error) or with a body that is not well-formed XML
\* leaves the features of the displayed layer as they were, and the next
\* trigger still works: an enable that follows sends a request, and a
\* viewport change that follows with the layer enabled starts the debounce
\* timeout.
C22_ErrorKeepsLayer ==
  /\ [](JustFailed => ~ev.changed)
  /\ [][(JustFailed /\ ev'.type = "overlayadd") =>
          Len(inflight') = Len(inflight) + 1]_vars
  /\ [][(JustFailed /\ ev'.type = "moveend" /\ Enabled) =>
          moveTimer' # NoTimer]_vars

\* C23: whenever a result with at least one feature is applied to the layer,
\* the layer afterwards holds exactly the features of that response (those
\* that have a geometry, one sublayer each) and nothing of an earlier one
C23_FullReplace ==
  (/\ ev.type = "settle"
   /\ ev.origin \in LayerStream
   /\ ev.applied
   /\ Len(ev.feats) >= 1) => layer = HookSublayers(ev.feats)

\* a refresh has replaced the content of the layer by a response of one
\* feature
C23_Witness ==
  /\ ev.type = "settle" /\ ev.origin = "move" /\ ev.applied /\ ev.changed
  /\ ev.feats = <<FeatPlain>>
  /\ Len(layer) = 1

\* C24: a settled fetch of the layer stream changes the view only on the
\* enable path and only when it applied a result of at least one feature; a
\* refresh never changes the view, so it cannot cause a further viewport
\* change and refresh
C24_FitOnlyOnEnable ==
  [][(/\ ev'.type = "settle"
      /\ ev'.origin \in LayerStream
      /\ fitPending' # fitPending \/ ev'.fit # "none") =>
       (/\ ev'.origin = "enable"
        /\ ev'.applied
        /\ Len(ev'.feats) >= 1
        /\ ev'.fit = "later" => fitPending')]_vars

\* the view change of an enable-path fit has ended and the layer has taken
\* its moveend; Map's own layer is empty, so the fit was the hook's
C24_Witness ==
  /\ ev.type = "moveend" /\ ev.origin = "fit" /\ ev.applied
  /\ mapLayer = <<>>
  /\ Len(layer) > 0

\* C25: after a disable the layer that was disabled holds no fetched
\* features, so an enable that follows puts an empty layer on the map and
\* shows only what a fetch issued after it brings
C25_DisableDiscardsData ==
  /\ [](ev.type = "overlayremove" =>
          (IF ev.origin = "map" THEN mapLayer ELSE layer) = <<>>)
  /\ [][(ev.type = "overlayremove" /\ ev'.type = "overlayadd"
          /\ ev'.origin = ev.origin) =>
          (IF ev.origin = "map" THEN mapLayer' ELSE layer') = <<>>]_vars

C27_EmptyFieldsResolved ==
  /\ \A c \in 1..MaxClicks :
       (clicks[c].query = "fields" /\ clicks[c].fields = <<>>) =>
         /\ clicks[c].phase = "done"
         /\ clicks[c].wfs = "none"
         /\ \A i \in DOMAIN inflight : inflight[i].click # c
         /\ clicks[c].rendered = "marker"
         /\ clicks[c].html = NoAttrsHtml
  /\ (ev.type = "query" /\ ev.kind = "fields" /\ clicks[ev.click].fields = <<>>) =>
       /\ markers # <<>>
       /\ markers[Len(markers)] = [click |-> ev.click, html |-> NoAttrsHtml]

\* a point query has just returned an empty field list
C27_Witness ==
  /\ ev.type = "query" /\ ev.kind = "fields"
  /\ clicks[ev.click].fields = <<>>
  /\ clicks[ev.click].rendered = "marker"
  /\ Len(markers) = 1

\* C28: every createTile call sends exactly one request and calls done
\* exactly once on every path: with the tile when the image has loaded, with
\* an error after a failed status, a rejected fetch or a failed image load;
\* and a step of one tile changes no other tile
C28_TileDoneOnce ==
  /\ [](\A t \in 1..MaxTiles :
          /\ tiles[t].sent = (IF tiles[t].phase = "idle" THEN 0 ELSE 1)
          /\ tiles[t].doneCalls = (IF TileSettled(t) THEN 1 ELSE 0)
          /\ tiles[t].phase = "ready" => tiles[t].done = "tile"
          /\ tiles[t].phase = "failed" =>
               (tiles[t].done = "error" /\ tiles[t].why \in {"status", "rejected"})
          /\ tiles[t].phase = "broken" =>
               (tiles[t].done = "error" /\ tiles[t].why = "image"))
  /\ [][\A t, u \in 1..MaxTiles :
          (tiles'[t] # tiles[t] /\ u # t) => tiles'[u] = tiles[u]]_vars

\* three tiles have ended in three ways: a failed status, a failed image
\* load and a loaded image, and done was called once for each
C28_Witness ==
  /\ \E t \in 1..MaxTiles : tiles[t].why = "status" /\ tiles[t].doneCalls = 1
  /\ \E t \in 1..MaxTiles : tiles[t].why = "image" /\ tiles[t].doneCalls = 1
  /\ \E t \in 1..MaxTiles : tiles[t].done = "tile" /\ tiles[t].doneCalls = 1

\* the lines of points of a geometry: the coordinates of a LineString, the
\* rings of a Polygon, none for a Point
LinesOf(g) ==
  CASE g.type = "LineString" -> <<g.coordinates>>
    [] g.type = "Polygon" -> g.coordinates
    [] OTHER -> <<>>

\* the positions of a geometry
PositionsOf(g) ==
  CASE g.type = "Point" -> <<g.coordinates>>
    [] g.type = "LineString" -> g.coordinates
    [] g.type = "Polygon" -> g.coordinates[1]
    [] OTHER -> <<>>

\* C29: the parser emits no LineString and no Polygon ring with fewer than
\* two points
C29_LinesHaveTwoPoints ==
  (call.fn = "parseGeometryFromElement" /\ call.done /\ call.ret # <<>>) =>
    \A i \in DOMAIN LinesOf(call.ret[1]) : Len(LinesOf(call.ret[1])[i]) >= 2

\* C30: every coordinate of a geometry the parser emits is a finite number
C30_CoordinatesFinite ==
  (call.fn = "parseGeometryFromElement" /\ call.done /\ call.ret # <<>>) =>
    \A i \in DOMAIN PositionsOf(call.ret[1]) :
      \A j \in DOMAIN PositionsOf(call.ret[1])[i] :
        PositionsOf(call.ret[1])[i][j].kind = "number"

\* the kinds of the direct children of the feature element that are
\* geometries
DirectGeometries(in) ==
  {in.kids[i] : i \in DOMAIN in.kids} \cap
    {"Point", "LineString", "Polygon", "PolygonHole", "PolygonInterior"}

\* the type the priority Point, LineString, Polygon picks among the direct
\* children
DirectType(in) ==
  IF "Point" \in DirectGeometries(in) THEN "Point"
  ELSE IF "LineString" \in DirectGeometries(in) THEN "LineString"
  ELSE "Polygon"

\* C31: the geometry of a feature is picked among the direct children of the
\* feature element by the priority Point, LineString, Polygon: a feature
\* with a geometry as a direct child gets the type that priority picks, also
\* when a Point lies deeper in the feature
C31_DirectChildPriority ==
  (call.fn = "FeatureOf" /\ call.done /\ DirectGeometries(call.arg) # {}) =>
    call.ret.geometry.type = DirectType(call.arg)

\* the points of ExteriorText
ExteriorRing ==
  <<(<<Num(1), Num(1)>>), (<<Num(1), Num(2)>>), (<<Num(2), Num(2)>>), (<<Num(1), Num(1)>>)>>

\* C32: every Polygon the parser emits has exactly one ring, the points of
\* the exterior ring's text grouped in pairs (8 numbers give 4 points); an
\* interior ring is never extracted
C32_PolygonExteriorOnly ==
  (call.fn = "FeatureOf" /\ call.done /\ call.ret.geometry.type = "Polygon") =>
    call.ret.geometry.coordinates = <<ExteriorRing>>

\* the value of the last `name` child, as a sequence of at most one value
LastName(kids) ==
  LET at == {i \in DOMAIN kids : kids[i] \in {"name_a", "name_b"}}
  IN  IF at = {} THEN <<>>
      ELSE LET last == CHOOSE i \in at : \A j \in at : j <= i
           IN  <<(IF kids[last] = "name_a" THEN <<"a">> ELSE <<"b">>)>>

\* C33: no attribute of a feature comes from a child named as a geometry or
\* a bounding box or from a child that holds geometry markup, prefixed or
\* not; of two children of one name the last one gives the value
C33_AttributesExcludeGeometry ==
  (call.fn = "FeatureOf" /\ call.done) =>
    /\ \A i \in DOMAIN call.ret.properties : call.ret.properties[i].key = "name"
    /\ Len(call.ret.properties) = Len(LastName(call.arg.kids))
    /\ \A i \in DOMAIN call.ret.properties :
         call.ret.properties[i].value = LastName(call.arg.kids)[1]

\* C34: a viewport change while the layer is off the map starts no debounce
\* timer and sends no bbox request, also when the change is the one a
\* fitBounds call makes before it returns
C34_NoDebounceWhileDisabled ==
  [][/\ (ev'.type = "moveend" /\ ~layerOnMap) =>
          (/\ ~ev'.applied
           /\ moveTimer' = moveTimer
           /\ inflight' = inflight)
     /\ (ev'.type = "settle" /\ ev'.fit = "inside" /\ ~layerOnMap) =>
          (/\ moveTimer' = moveTimer
           /\ Cardinality({i \in DOMAIN inflight' : inflight'[i].origin = "move"})
                <= Cardinality({i \in DOMAIN inflight : inflight[i].origin = "move"}))]_vars

\* the user has moved the map while the layer was off the map and no timer
\* is pending
C34_Witness ==
  /\ ev.type = "moveend"
  /\ ev.origin = "user"
  /\ ~ev.applied
  /\ ~layerOnMap
  /\ moveTimer = NoTimer
  /\ \A i \in DOMAIN inflight : inflight[i].origin # "move"

\* the resolution of click c is over: resolved with one marker or popup, or
\* cancelled with none
Terminal(c) ==
  /\ clicks[c].phase = "done"
  /\ \/ clicks[c].rendered \in {"marker", "notfound", "error"}
     \/ clicks[c].query = "abort" /\ clicks[c].rendered = "none"

\* C35: every click resolution reaches a terminal state in the end, resolved
\* with exactly one marker or popup or cancelled with none, when every
\* transport call it sends settles
C35_ClickTerminates ==
  \A c \in 1..MaxClicks : (clicks[c].phase # "idle") ~> Terminal(c)

\* one click was cancelled and rendered nothing, a later one went through
\* the fallback and ended with the "not found" popup
C35_Witness ==
  /\ \E c \in 1..MaxClicks :
       clicks[c].phase = "done" /\ clicks[c].query = "abort" /\ clicks[c].rendered = "none"
  /\ \E c \in 1..MaxClicks :
       clicks[c].phase = "done" /\ clicks[c].wfs = "fail" /\ clicks[c].rendered = "notfound"

\* C36: once Map has mounted with wfsUrl and wfsTypeName set, the hook's
\* overlayadd, overlayremove and moveend handlers are subscribed on the map
\* that was created; after the unmount they are subscribed nowhere
C36_HandlersSubscribed ==
  /\ (mount.mounted = "yes" /\ WfsSet(mount)) =>
       (mount.map # 0 /\ mount.handlersOn = mount.map)
  /\ mount.mounted = "gone" => mount.handlersOn = 0

\* C37: the proxy sends an upstream request only for a target that is
\* present, parses as a URL and has an allowed host name, and the URL it
\* fetches has the host name that was checked; in every other case it
\* answers 400 or 403 and sends no upstream request
C37_ProxyOnlyAllowedHosts ==
  (call.fn \in {"handler", "handlerDecoding"} /\ call.ret # <<>>) =>
    /\ call.ret.fetched # <<>> =>
         /\ TargetOf(call.arg) # <<>>
         /\ call.ret.checked # <<>>
         /\ isAllowedHost(call.ret.checked[1])
         /\ NewURL(call.ret.fetched[1]) # <<>>
         /\ NewURL(call.ret.fetched[1])[1].hostname = call.ret.checked[1]
    /\ (call.done /\ call.ret.fetched = <<>>) =>
         /\ call.ret.status \in {400, 403}
         /\ call.ret.status = 403 <=> call.ret.checked # <<>>

=============================================================================
